---- MODULE Spec2Model ----
(***************************************************************************)
(* Model of the streaming playback supervision of the audiobook mixer:     *)
(* AudioProcessor (python_desktop_app/audio_processor.py) and the handlers *)
(* of AudioMixerApp (python_desktop_app/main.py) that call it.             *)
(*                                                                         *)
(* Threads: the GUI thread ("gui") runs the Tk handlers; stop_playback and *)
(* seek_to_position run on it.  Every Play / Preview click starts a daemon *)
(* thread that runs play_mix / preview_mix.  The processor has no lock, so *)
(* the threads interleave; a step of the model is the code between two     *)
(* blocking calls (time.sleep, Popen.wait, subprocess.run, stderr.read).   *)
(*                                                                         *)
(* Files and engine processes are numbered by the call that creates them:  *)
(* call k creates the temporary .wav file k, the concat list k and the     *)
(* ffmpeg process k.  0 stands for Python's None.                          *)
(***************************************************************************)
EXTENDS Integers, Sequences, FiniteSets, TLC

\* ---------------------------------------------------------------- bounds
MaxCalls == 2          \* play_mix / preview_mix calls in one behaviour
MaxPolls == 2          \* buffering polls explored per call when calls interleave
MaxTime == 2           \* clock ticks (seconds) in one behaviour
MaxWrites == 3         \* writes of the engine to its output file that are followed
WriteChunk == 100000   \* bytes the engine appends in one write
TkTick == 200          \* ms of Tk event-loop time that pass in one step
PipeLines == 2         \* diagnostic lines an undrained pipe of the engine holds
MaxStatLines == 3      \* time= lines the engine prints during one render
MaxDiagLines == 6      \* diagnostic lines the engine prints during one render
MaxRenderTime == 7     \* tenths of a second of wall time during one render

\* ------------------------------------------------------ program constants
PlayMaxRetries == 20       \* while retry_count < 20
PreviewMaxRetries == 15    \* while retry_count < 15
PlayMinFileSize == 200000      \* min_file_size of play_mix
PreviewMinFileSize == 100000   \* min_file_size of preview_mix

None == 0
Absent == 0 - 1
WorkerPool == <<"w1", "w2">>   \* daemon threads that can run at the same time
Workers == {WorkerPool[i] : i \in 1..Len(WorkerPool)}
Threads == {"gui"} \cup Workers
Calls == 1..MaxCalls
Positions == {0, 2}        \* seek slider values (seconds)

VARIABLES
    audiobook_path,          \* self.audiobook_path: "None" or a path
    audiobook_files,         \* self.audiobook_files: sequence of paths
    music_path,              \* self.music_path
    audiobook,               \* self.audiobook: in-memory segment loaded?
    background_music,        \* self.background_music: in-memory segment loaded?
    is_playing,              \* self.is_playing
    streaming_process,       \* self.streaming_process: None or a process
    current_playback_file,   \* self.current_playback_file: None or a file
    playback_start_time,     \* self.playback_start_time
    playback_start_position, \* self.playback_start_position
    mixer_state,             \* pygame.mixer.music: "idle", "playing", "paused"
    proc,                    \* engine processes: "none", "run", "term", "dead"
    wav,                     \* temporary .wav files: Absent or size in bytes
    concat,                  \* temporary concat lists: exists?
    now,                     \* time.time()
    calls,                   \* number of play_mix / preview_mix calls begun
    th,                      \* per thread: position in the code and locals
    seek_var,                \* AudioMixerApp.seek_var
    serialized,              \* the caller runs one operation at a time
    audiobook_volume,        \* self.audiobook_volume (dB)
    music_volume,            \* self.music_volume (dB)
    current_pygame_volume,   \* self.current_pygame_volume (millionths)
    mixer_volume,            \* pygame.mixer.music volume (millionths)
    audiobook_speed,         \* self.audiobook_speed (thousandths)
    is_adjusting_speed,      \* AudioMixerApp.is_adjusting_speed
    speed_adjust_timer,      \* AudioMixerApp.speed_adjust_timer: ms left, or Absent
    speed_arg,               \* argument of the last set_audiobook_speed call
    atempo_arg,              \* argument of the last _build_atempo_filter call
    atempo_chain,            \* its result: the atempo factors (thousandths)
    render,                  \* the render_to_file call: its locals, engine, output
    probe,                   \* the last duration query: its ffprobe runs and its result
    command,                 \* the last engine command built by play_mix / preview_mix
    playlist,                \* the last concat list written: the paths and the text
    stream,                  \* the engine of the stream session and its stderr pipe
    app_settings             \* AudioMixerApp: auto-reload box, paths, save timer, settings file

loadVars == <<audiobook_path, audiobook_files, music_path, audiobook, background_music,
             serialized>>
volumeVars == <<audiobook_volume, music_volume, current_pygame_volume, mixer_volume>>
\* what play_mix, preview_mix, stop_playback and seek_to_position never assign
speedVars == <<audiobook_speed, is_adjusting_speed, speed_adjust_timer>>
filterVars == <<speed_arg, atempo_arg, atempo_chain>>
buildVars == <<command, playlist, stream>>
srcVars == <<loadVars, volumeVars, speedVars, filterVars, render, probe, buildVars, app_settings>>
anchorVars == <<playback_start_time, playback_start_position>>
mixerVars == <<mixer_state>>
vars == <<audiobook_path, audiobook_files, music_path, audiobook, background_music,
          is_playing, streaming_process, current_playback_file,
          playback_start_time, playback_start_position, mixer_state,
          proc, wav, concat, now, calls, th, seek_var, serialized,
          audiobook_volume, music_volume, current_pygame_volume, mixer_volume,
          audiobook_speed, is_adjusting_speed, speed_adjust_timer,
          speed_arg, atempo_arg, atempo_chain, render, probe, command, playlist,
          stream, app_settings>>

\* The source configurations a behaviour starts from (state after loading).
SourceConfigs ==
    { [path |-> "book.mp3", files |-> <<>>, music |-> "music.mp3", mem |-> FALSE],
      [path |-> "book.mp3", files |-> <<>>, music |-> "music.mp3", mem |-> TRUE],
      [path |-> "None", files |-> <<"a.mp3", "b.mp3">>, music |-> "music.mp3", mem |-> FALSE],
      [path |-> "book.mp3", files |-> <<>>, music |-> "None", mem |-> FALSE] }

IdleThread == [pc |-> "idle", op |-> "none", sid |-> None, start |-> 0,
               retry |-> 0, h |-> None, ret |-> "none", msg |-> "none"]

\* The processor and the player after __init__ and the loading of one of the
\* given source configurations.
InitWith(configs) ==
    /\ \E c \in configs :
          /\ audiobook_path = c.path
          /\ audiobook_files = c.files
          /\ music_path = c.music
          /\ audiobook = c.mem
          /\ background_music = c.mem
    /\ is_playing = FALSE
    /\ streaming_process = None
    /\ current_playback_file = None
    /\ playback_start_time = 0
    /\ playback_start_position = 0
    /\ mixer_state = "idle"
    /\ proc = [c \in Calls |-> "none"]
    /\ wav = [c \in Calls |-> Absent]
    /\ concat = [c \in Calls |-> FALSE]
    /\ now = 0
    /\ calls = 0
    /\ th = [t \in Threads |-> IdleThread]
    /\ seek_var = 0

InitState == InitWith(SourceConfigs)

\* Volumes are fixed-point numbers, 1.0 = VolScale.
VolScale == 1000000
\* Speeds are fixed-point numbers, 1.0 = SpeedScale.
SpeedScale == 1000

\* No render_to_file call has been made.  script names what the engine will
\* print: "stats" (time= lines) or "diag" (diagnostic lines).
IdleRender == [pc |-> "idle", on |-> "none", script |-> "stats",
               adjusted_duration |-> 0, stderr_lines |-> <<>>,
               last_update_time |-> 0, progress |-> <<>>,
               ret |-> "none", msg |-> [kind |-> "none", lines |-> <<>>],
               concat |-> FALSE, interrupted |-> FALSE,
               process |-> "none", returncode |-> 0, output |-> Absent,
               now |-> 0]

\* No duration has been asked for.
IdleProbe == [op |-> "none", runs |-> <<>>, ok |-> TRUE, raised |-> FALSE,
              none |-> TRUE, duration |-> 0, msg |-> "none"]

\* No engine command has been built, no concat list written.
IdleCommand == [op |-> "none", start_position |-> 0, duration_seconds |-> 0,
                multi |-> FALSE, args |-> <<>>, audiobook_filter |-> <<>>]
\* No stream session: no engine, nothing in the pipe of its stderr.
IdleStream == [op |-> "none", proc |-> "none", stderr |-> 0, written |-> 0, length |-> 0]

\* AudioMixerApp after __init__ with the default settings file: the
\* auto-reload box is ticked, no path is selected or saved, no save is pending
DefaultSettings ==
    [auto_reload_var |-> TRUE, audiobook_path |-> "None", music_path |-> "None",
     save_settings_timer |-> Absent,
     file |-> [auto_reload_files |-> TRUE, last_audiobook_path |-> "None",
               last_music_path |-> "None"]]

IdlePlaylist == [written |-> FALSE, paths |-> <<>>, text |-> <<>>]

\* The settings of __init__ and the player's volume after pygame.mixer.init
InitSettings ==
    /\ audiobook_volume = 0
    /\ music_volume = 0 - 10
    /\ current_pygame_volume = VolScale
    /\ mixer_volume = VolScale
    /\ audiobook_speed = SpeedScale
    /\ is_adjusting_speed = FALSE
    /\ speed_adjust_timer = Absent
    /\ speed_arg = Absent
    /\ atempo_arg = Absent
    /\ atempo_chain = <<>>
    /\ render = IdleRender
    /\ probe = IdleProbe
    /\ command = IdleCommand
    /\ playlist = IdlePlaylist
    /\ stream = IdleStream
    /\ app_settings = DefaultSettings

\* Calls from the GUI thread and from the threads it starts interleave.
Init == InitState /\ InitSettings /\ serialized = FALSE

\* One thread of control: an operation starts when the previous has returned.
InitSeq == InitState /\ InitSettings /\ serialized = TRUE

\* ------------------------------------------------------------- helpers
\* the mutation of HasSources: the music is not looked at
HasSources_audiobook_only == audiobook_path # "None" \/ audiobook_files # <<>>

\* has_audiobook and music_path of play_mix / preview_mix / seek_to_position
HasSources == (audiobook_path # "None" \/ audiobook_files # <<>>) /\ music_path # "None"

\* pygame.mixer.music.get_busy(): False while idle and (pygame 2) while paused
get_busy == mixer_state = "playing"

\* Popen.terminate(): SIGTERM is sent and the call returns at once
terminate(p) == IF p # None /\ proc[p] = "run" THEN [proc EXCEPT ![p] = "term"] ELSE proc

IsPlayOp(o) == o \in {"play", "seek", "restart"}

Min(a, b) == IF a < b THEN a ELSE b

\* The GUI thread can run a handler: it is not inside one, and with a
\* serializing caller no worker thread is running either.
GuiReady ==
    /\ th["gui"].pc = "idle"
    /\ serialized => \A w \in Workers : th[w].pc = "idle"

\* The message of the result pair is its fixed text.  seek_to_position
\* replaces the message of the play_mix call it makes by "Seeked to".
Text(o, play_text, preview_text) == IF o = "preview" THEN preview_text ELSE play_text

Returned(t, r, m) ==
    [th EXCEPT ![t].pc = "returned", ![t].ret = r,
               ![t].msg = IF th[t].op = "seek" THEN "Seeked to" ELSE m]

\* ------------------------------------------------------- stop_playback
\* Where a thread continues when its stop_playback returns: the standalone
\* call returns (True, "Playback stopped"); play_mix / preview_mix go on.
AfterStop(rec) ==
    IF rec.op = "stop"
    THEN [rec EXCEPT !.pc = "returned", !.ret = "ok", !.msg = "Playback stopped"]
    ELSE [rec EXCEPT !.pc = "setup"]

\* "if self.current_playback_file and os.path.exists(...)": sleep 0.1 s
\* before the unlink, or skip the cleanup (the field is then left as it is).
StopFileCheck(rec) ==
    IF current_playback_file # None /\ wav[current_playback_file] # Absent
    THEN [rec EXCEPT !.pc = "stop_unlink"]
    ELSE AfterStop(rec)

\* stop_playback up to the blocking wait: stop the player, clear is_playing,
\* terminate() the engine process if there is one.
stop_playback_begin(t, rec) ==
    /\ mixer_state' = "idle"
    /\ is_playing' = FALSE
    /\ IF streaming_process # None
       THEN /\ proc' = terminate(streaming_process)
            /\ th' = [th EXCEPT ![t] = [rec EXCEPT !.pc = "stop_wait"]]
       ELSE /\ proc' = proc
            /\ th' = [th EXCEPT ![t] = StopFileCheck(rec)]
    /\ UNCHANGED <<srcVars, anchorVars, streaming_process, current_playback_file,
                   wav, concat, now>>

\* wait(timeout=2) returned or timed out (then kill()); both read
\* self.streaming_process again.  The handle is dropped afterwards.
stop_playback_wait(t) ==
    /\ th[t].pc = "stop_wait"
    /\ proc' = IF streaming_process # None
               THEN [proc EXCEPT ![streaming_process] = "dead"] ELSE proc
    /\ streaming_process' = None
    /\ th' = [th EXCEPT ![t] = StopFileCheck(th[t])]
    /\ UNCHANGED <<srcVars, anchorVars, is_playing, current_playback_file,
                   mixerVars, wav, concat, now, calls, seek_var>>

\* after time.sleep(0.1): os.unlink(self.current_playback_file) (errors are
\* swallowed), then the field is cleared.
stop_playback_unlink(t) ==
    /\ th[t].pc = "stop_unlink"
    /\ wav' = IF current_playback_file # None
              THEN [wav EXCEPT ![current_playback_file] = Absent] ELSE wav
    /\ current_playback_file' = None
    /\ th' = [th EXCEPT ![t] = AfterStop(th[t])]
    /\ UNCHANGED <<srcVars, anchorVars, is_playing, streaming_process,
                   mixerVars, proc, concat, now, calls, seek_var>>

\* AudioMixerApp.stop_preview: stop_playback on the GUI thread
\* (for a standalone stop, sid notes a call that is buffering when it begins)
Buffering(t) == th[t].pc \in {"spawned", "poll_file", "poll_proc"}
BufferingCall ==
    IF \E w \in Workers : Buffering(w)
    THEN th[CHOOSE w \in Workers : Buffering(w)].sid ELSE None

stop_preview ==
    /\ GuiReady
    /\ stop_playback_begin("gui", [IdleThread EXCEPT !.op = "stop", !.sid = BufferingCall])
    /\ UNCHANGED <<calls, seek_var>>

\* --------------------------------------------- play_mix / preview_mix entry
\* Source check, then stop_playback.  k is the number of the call: of the
\* temporary files and of the engine process it will create.
mix_call(t, o, p, k) ==
    IF ~HasSources
    THEN /\ th' = [th EXCEPT ![t] = [IdleThread EXCEPT !.op = o, !.start = p,
                                     !.pc = "returned", !.ret = "fail",
                                     !.msg = "Please load both audiobook and background music first."]]
         /\ UNCHANGED <<srcVars, anchorVars, is_playing, streaming_process,
                        current_playback_file, mixerVars, proc, wav, concat,
                        now>>
    ELSE stop_playback_begin(t, [IdleThread EXCEPT !.op = o, !.sid = k, !.start = p])

\* the thread started by toggle_play_pause / preview_at_position enters
\* play_mix(start_position) / preview_mix(duration, start_position)
thread_run(w) ==
    /\ th[w].pc = "start"
    /\ mix_call(w, th[w].op, th[w].start, th[w].sid)
    /\ UNCHANGED <<calls, seek_var>>

Multi == audiobook_files # <<>>
InMemory == audiobook /\ background_music
\* the mutation of MinFileSize: any file that exists is taken as ready
MinFileSize_none(o) == 0

MinFileSize(o) == IF o = "preview" THEN PreviewMinFileSize ELSE PlayMinFileSize

\* Sizes of the .wav that preview.export writes on the in-memory path: a
\* preview that starts just before the end of the audio is short.
PreviewExportSizes == {WriteChunk \div 2, MaxWrites * WriteChunk}
\* The loop bound of the code.  When calls interleave, only the first
\* MaxPolls polls of a call are explored: the remaining polls of a call that
\* gives up change nothing.
LoopLimit(o) == IF o = "preview" THEN PreviewMaxRetries ELSE PlayMaxRetries
MaxRetries(o) == IF serialized THEN LoopLimit(o) ELSE Min(LoopLimit(o), MaxPolls)

\* pygame.mixer.music.load(temp_path); play(); is_playing = True;
\* current_playback_file = temp_path; play_mix also sets the position anchors;
\* the concat list is removed; the call returns success.  The call of
\* _update_playback_volume() between load() and play() changes nothing: it
\* acts only while the player is busy, and load() has stopped the player.
start_playback(t) ==
    LET s == th[t].sid IN
    /\ mixer_state' = "playing"
    /\ is_playing' = TRUE
    /\ current_playback_file' = s
    /\ IF IsPlayOp(th[t].op)
       THEN /\ playback_start_time' = now
            /\ playback_start_position' = th[t].start
       ELSE UNCHANGED anchorVars
    /\ concat' = [concat EXCEPT ![s] = FALSE]
    /\ th' = Returned(t, "ok", Text(th[t].op, "Streaming mixed audio", "Streaming preview"))

\* An error handler that first checks "if self.streaming_process:" : with a
\* process it blocks in stderr.read(); without one it removes the concat list
\* and returns failure.
enter_handler(t) ==
    LET s == th[t].sid
        m == Text(th[t].op, "Playback error", "Preview playback error") IN
    IF streaming_process # None
    THEN /\ th' = [th EXCEPT ![t].pc = "handler_read", ![t].h = streaming_process,
                             ![t].msg = m]
         /\ UNCHANGED concat
    ELSE /\ th' = Returned(t, "fail", m)
         /\ concat' = [concat EXCEPT ![s] = FALSE]

\* After stop_playback: play_mix probes the duration (ffprobe), both create
\* the temporary .wav (and the concat list in multi-file mode) and spawn the
\* engine; preview_mix with both sources in memory mixes with pydub instead.
setup(t) ==
    LET s == th[t].sid
        o == th[t].op IN
    /\ th[t].pc = "setup"
    /\ \/ \* play_mix: "Could not determine audiobook duration"
          /\ IsPlayOp(o)
          /\ th' = Returned(t, "fail", "Could not determine audiobook duration")
          /\ UNCHANGED <<wav, concat, proc, streaming_process, is_playing,
                         current_playback_file, mixerVars>>
       \/ \* preview_mix, in-memory path: export the preview, load it, play it
          /\ o = "preview" /\ InMemory
          /\ \E size \in PreviewExportSizes : wav' = [wav EXCEPT ![s] = size]
          /\ \/ /\ mixer_state' = "playing"
                /\ is_playing' = TRUE
                /\ current_playback_file' = s
                /\ th' = Returned(t, "ok", "Playing")
             \/ \* pygame.error: caught by the outer handler
                /\ th' = Returned(t, "fail", "Error playing preview")
                /\ UNCHANGED <<is_playing, current_playback_file, mixerVars>>
          /\ UNCHANGED <<concat, proc, streaming_process>>
       \/ \* streaming path: temporary files, then subprocess.Popen
          /\ IsPlayOp(o) \/ ~InMemory
          /\ wav' = [wav EXCEPT ![s] = 0]
          /\ \/ /\ proc' = [proc EXCEPT ![s] = "run"]
                /\ streaming_process' = s
                /\ concat' = [concat EXCEPT ![s] = Multi]
                /\ th' = [th EXCEPT ![t].pc = "spawned"]
             \/ \* Popen raises: play_mix's handler looks at
                \* self.streaming_process, preview_mix's only at the concat list
                /\ IF IsPlayOp(o) /\ streaming_process # None
                   THEN /\ th' = [th EXCEPT ![t].pc = "handler_read",
                                            ![t].h = streaming_process,
                                            ![t].msg = "Error streaming audio"]
                        /\ concat' = [concat EXCEPT ![s] = Multi]
                   ELSE /\ th' = Returned(t, "fail", Text(o, "Error streaming audio",
                                                          "Error playing preview"))
                        /\ UNCHANGED concat
                /\ UNCHANGED <<proc, streaming_process>>
          /\ UNCHANGED <<is_playing, current_playback_file, mixerVars>>
    /\ UNCHANGED <<srcVars, anchorVars, now, calls, seek_var>>

\* time.sleep(1.0) after the spawn is over: enter the buffering loop
spawned(t) ==
    /\ th[t].pc = "spawned"
    /\ th' = [th EXCEPT ![t].pc = "poll_file", ![t].retry = 0]
    /\ UNCHANGED <<srcVars, anchorVars, is_playing, streaming_process,
                   current_playback_file, mixerVars, proc, wav, concat, now,
                   calls, seek_var>>

\* Head of the buffering loop: sleep and poll again, or leave the loop
\* (enough data, or the retries are used up), verify the file and start
\* playback.
poll_file(t) ==
    LET s == th[t].sid
        o == th[t].op
        exists == wav[s] # Absent IN
    /\ th[t].pc = "poll_file"
    /\ IF th[t].retry < MaxRetries(o) /\ ~(exists /\ wav[s] > MinFileSize(o))
       THEN /\ th' = [th EXCEPT ![t].pc = "poll_proc"]
            /\ UNCHANGED <<anchorVars, is_playing, current_playback_file,
                           mixerVars, concat>>
       ELSE IF ~exists \/ wav[s] < MinFileSize(o)
       THEN /\ th' = Returned(t, "fail",
                        Text(o, IF exists THEN "Audio file too small"
                                ELSE "Failed to generate audio stream file",
                             "Preview file not ready"))
            /\ UNCHANGED <<anchorVars, is_playing, current_playback_file,
                           mixerVars, concat>>
       ELSE \/ start_playback(t)
            \/ \* pygame.error on load
               /\ enter_handler(t)
               /\ UNCHANGED <<anchorVars, is_playing, current_playback_file,
                              mixerVars>>
    /\ UNCHANGED <<srcVars, streaming_process, proc, wav, now, calls, seek_var>>

\* After the sleep: retry_count += 1 and self.streaming_process.poll().
\* The process polled is whatever the field holds now; None raises
\* AttributeError, which the outer handler turns into a failure.
poll_proc(t) ==
    /\ th[t].pc = "poll_proc"
    /\ IF streaming_process = None
       THEN /\ th' = [Returned(t, "fail", Text(th[t].op, "Error streaming audio",
                                                "Error playing preview"))
                         EXCEPT ![t].retry = @ + 1]
            /\ concat' = [concat EXCEPT ![th[t].sid] = FALSE]
       ELSE IF proc[streaming_process] = "dead"
       THEN /\ th' = [Returned(t, "fail", Text(th[t].op, "FFmpeg failed",
                                                "FFmpeg preview failed"))
                         EXCEPT ![t].retry = @ + 1]
            /\ UNCHANGED concat
       ELSE /\ th' = [th EXCEPT ![t].pc = "poll_file", ![t].retry = @ + 1]
            /\ UNCHANGED concat
    /\ UNCHANGED <<srcVars, anchorVars, is_playing, streaming_process,
                   current_playback_file, mixerVars, proc, wav, now, calls,
                   seek_var>>

\* stderr.read() returns when the engine has exited; then
\* self.streaming_process.terminate() (on the field's current value; a None
\* there is swallowed), self.streaming_process = None, the concat list is
\* removed and the call returns failure.
handler_read(t) ==
    /\ th[t].pc = "handler_read"
    /\ proc[th[t].h] = "dead"
    /\ proc' = terminate(streaming_process)
    /\ streaming_process' = None
    /\ concat' = [concat EXCEPT ![th[t].sid] = FALSE]
    /\ th' = Returned(t, "fail", th[t].msg)
    /\ UNCHANGED <<srcVars, anchorVars, is_playing, current_playback_file,
                   mixerVars, wav, now, calls, seek_var>>

\* the call's result has been delivered: the worker thread ends, the GUI
\* handler continues
thread_return(t) ==
    /\ th[t].pc = "returned"
    /\ th' = [th EXCEPT ![t] = IdleThread]
    /\ UNCHANGED <<srcVars, anchorVars, is_playing, streaming_process,
                   current_playback_file, mixerVars, proc, wav, concat, now,
                   calls, seek_var>>

\* ------------------------------------------------- position and pausing
\* get_playback_position(): 0 unless is_playing, else anchor + elapsed time
get_playback_position ==
    IF ~is_playing THEN 0
    ELSE playback_start_position + (now - playback_start_time)

\* pause_playback(): pauses the player when is_playing and the player is busy
pause_playback ==
    /\ mixer_state' = IF is_playing /\ get_busy THEN "paused" ELSE mixer_state
    /\ UNCHANGED <<srcVars, anchorVars, is_playing, streaming_process,
                   current_playback_file, proc, wav, concat, now,
                   calls, th, seek_var>>

\* resume_playback(): pygame.mixer.music.unpause()
resume_playback ==
    /\ mixer_state' = IF mixer_state = "paused" THEN "playing" ELSE mixer_state
    /\ UNCHANGED <<srcVars, anchorVars, is_playing, streaming_process,
                   current_playback_file, proc, wav, concat, now,
                   calls, th, seek_var>>

\* seek_to_position(p) on the GUI thread: with something playing it runs
\* play_mix(p) and returns its success flag, otherwise it returns True.
seek_to_position(p) ==
    IF ~HasSources
    THEN /\ th' = [th EXCEPT !["gui"] = [IdleThread EXCEPT !.op = "seek_idle",
                       !.start = p, !.pc = "returned", !.ret = "fail",
                       !.msg = "No audio loaded"]]
         /\ UNCHANGED <<srcVars, anchorVars, is_playing, streaming_process,
                        current_playback_file, mixerVars, proc, wav, concat,
                        now, calls>>
    ELSE IF get_busy \/ is_playing
    THEN /\ calls < MaxCalls
         /\ calls' = calls + 1
         /\ mix_call("gui", "seek", p, calls + 1)
    ELSE /\ th' = [th EXCEPT !["gui"] = [IdleThread EXCEPT !.op = "seek_idle",
                       !.start = p, !.pc = "returned", !.ret = "ok",
                       !.msg = "Position set to"]]
         /\ UNCHANGED <<srcVars, anchorVars, is_playing, streaming_process,
                        current_playback_file, mixerVars, proc, wav, concat,
                        now, calls>>

\* ------------------------------------------------------- GUI handlers
GuiHasSources ==
    /\ audiobook \/ audiobook_path # "None" \/ audiobook_files # <<>>
    /\ background_music \/ music_path # "None"

\* A new daemon thread that will run play_mix / preview_mix from seek_var.
\* Threads differ in nothing but their name: the first free one is taken.
FreeWorker(i) ==
    /\ th[WorkerPool[i]].pc = "idle"
    /\ \A j \in 1..(i - 1) : th[WorkerPool[j]].pc # "idle"

start_thread(w, o) ==
    /\ \E i \in 1..Len(WorkerPool) : w = WorkerPool[i] /\ FreeWorker(i)
    /\ calls < MaxCalls
    /\ calls' = calls + 1
    /\ th' = [th EXCEPT ![w] = [IdleThread EXCEPT !.pc = "start", !.op = o,
                                                  !.sid = calls + 1,
                                                  !.start = seek_var]]
    /\ UNCHANGED <<srcVars, anchorVars, is_playing, streaming_process,
                   current_playback_file, mixerVars, proc, wav, concat, now,
                   seek_var>>

\* toggle_play_pause: pause when the player is busy, resume when is_playing,
\* otherwise start a play thread
toggle_play_pause ==
    /\ GuiReady
    /\ GuiHasSources
    /\ IF get_busy THEN pause_playback
       ELSE IF is_playing THEN resume_playback
       ELSE \E w \in Workers : start_thread(w, "play")

\* preview_at_position: always starts a preview thread
preview_at_position ==
    /\ GuiReady
    /\ GuiHasSources
    /\ \E w \in Workers : start_thread(w, "preview")

\* on_seek_end: the slider is released at p; seek only while is_playing
on_seek_end(p) ==
    /\ GuiReady
    /\ seek_var' = p
    /\ IF is_playing
       THEN seek_to_position(p)
       ELSE UNCHANGED <<srcVars, anchorVars, is_playing, streaming_process,
                        current_playback_file, mixerVars, proc, wav, concat,
                        now, calls, th>>

\* seek_to_position(p) called directly by the coordinating thread
seek_call(p) ==
    /\ GuiReady
    /\ seek_to_position(p)
    /\ UNCHANGED seek_var

\* ------------------------------------------------------- environment
\* The engine appends to its output file.  The size is read only by the
\* buffering loop of the call that spawned the engine, so growth is recorded
\* while that call is still buffering.
engine_write(c) ==
    /\ proc[c] = "run"
    /\ \E t \in Threads : th[t].sid = c /\ th[t].pc \in {"spawned", "poll_file", "poll_proc"}
    /\ wav[c] # Absent /\ wav[c] < MaxWrites * WriteChunk
    /\ wav' = [wav EXCEPT ![c] = @ + WriteChunk]
    /\ UNCHANGED <<srcVars, anchorVars, is_playing, streaming_process,
                   current_playback_file, mixerVars, proc, concat, now, calls,
                   th, seek_var>>

\* the engine exits: finished, failed, or after SIGTERM
engine_exit(c) ==
    /\ proc[c] \in {"run", "term"}
    /\ proc' = [proc EXCEPT ![c] = "dead"]
    /\ UNCHANGED <<srcVars, anchorVars, is_playing, streaming_process,
                   current_playback_file, mixerVars, wav, concat, now, calls,
                   th, seek_var>>

\* the player reaches the end of the file it plays
music_ends ==
    /\ mixer_state = "playing"
    /\ mixer_state' = "idle"
    /\ UNCHANGED <<srcVars, anchorVars, is_playing, streaming_process,
                   current_playback_file, proc, wav, concat, now,
                   calls, th, seek_var>>

\* One second passes.  The clock is read by get_playback_position while
\* is_playing and by play_mix when playback starts; only differences of
\* readings are used, so time that passes while nothing plays is not counted.
tick ==
    /\ is_playing
    /\ now < MaxTime
    /\ now' = now + 1
    /\ UNCHANGED <<srcVars, anchorVars, is_playing, streaming_process,
                   current_playback_file, mixerVars, proc, wav, concat, calls,
                   th, seek_var>>

Next ==
    \/ toggle_play_pause
    \/ preview_at_position
    \/ stop_preview
    \/ \E p \in Positions : on_seek_end(p)
    \/ \E p \in Positions : seek_call(p)
    \/ \E w \in Workers : thread_run(w)
    \/ \E t \in Threads : stop_playback_wait(t)
    \/ \E t \in Threads : stop_playback_unlink(t)
    \/ \E t \in Threads : setup(t)
    \/ \E t \in Threads : spawned(t)
    \/ \E t \in Threads : poll_file(t)
    \/ \E t \in Threads : poll_proc(t)
    \/ \E t \in Threads : handler_read(t)
    \/ \E t \in Threads : thread_return(t)
    \/ \E c \in Calls : engine_write(c)
    \/ \E c \in Calls : engine_exit(c)
    \/ music_ends
    \/ tick

\* The play / preview threads, stop on the GUI thread and the engine,
\* interleaved.
NextThreads ==
    \/ toggle_play_pause
    \/ preview_at_position
    \/ stop_preview
    \/ \E w \in Workers : thread_run(w)
    \/ \E t \in Threads : stop_playback_wait(t)
    \/ \E t \in Threads : stop_playback_unlink(t)
    \/ \E t \in Threads : setup(t)
    \/ \E t \in Threads : spawned(t)
    \/ \E t \in Threads : poll_file(t)
    \/ \E t \in Threads : poll_proc(t)
    \/ \E t \in Threads : handler_read(t)
    \/ \E t \in Threads : thread_return(t)
    \/ \E c \in Calls : engine_write(c)
    \/ \E c \in Calls : engine_exit(c)

Spec == Init /\ [][NextThreads]_vars

SpecSeq == InitSeq /\ [][Next]_vars

\* Play, preview and stop driven by one caller, and the engine
SpecBuffering == InitSeq /\ [][NextThreads]_vars

\* =================================================================
\* Live volume: set_audiobook_volume, set_music_volume
\* =================================================================
AudiobookGains == {0, 20}             \* audiobook volume slider: -20 .. 20 dB
MusicGains == {0 - 30, 0 - 10}        \* music volume slider: -30 .. 10 dB

\* 10 ** (dB / 20.0), in millionths, for the slider values above
linear(db) ==
    CASE db = 0 - 30 -> 31623
      [] db = 0 - 20 -> 100000
      [] db = 0 - 10 -> 316228
      [] db = 0 -> 1000000
      [] db = 10 -> 3162278
      [] db = 20 -> 10000000

\* the mutation of clamp01: the combined gain is passed on as it is
clamp01_none(x) == x

\* max(0.0, min(1.0, combined_linear))
clamp01(x) == IF x < 0 THEN 0 ELSE IF x > VolScale THEN VolScale ELSE x

\* audiobook_linear * 0.7 + music_linear * 0.3
combined_linear(a, m) == (linear(a) * 7 + linear(m) * 3) \div 10

\* _update_playback_volume() with the gains a and m stored: the player's
\* volume is set only while is_playing and the player is busy
update_playback_volume(a, m) ==
    IF is_playing /\ get_busy
    THEN /\ mixer_volume' = clamp01(combined_linear(a, m))
         /\ current_pygame_volume' = clamp01(combined_linear(a, m))
    ELSE UNCHANGED <<mixer_volume, current_pygame_volume>>

\* what the volume setters leave alone
playbackVars == <<is_playing, streaming_process, current_playback_file,
                  anchorVars, mixerVars, proc, wav, concat, now, calls, th,
                  seek_var>>

\* set_audiobook_volume(volume_db), called by on_audiobook_volume_change
set_audiobook_volume(v) ==
    /\ th["gui"].pc = "idle"
    /\ audiobook_volume' = v
    /\ update_playback_volume(v, music_volume)
    /\ UNCHANGED <<loadVars, speedVars, filterVars, render, probe, buildVars, app_settings, music_volume, playbackVars>>

\* set_music_volume(volume_db), called by on_music_volume_change
set_music_volume(v) ==
    /\ th["gui"].pc = "idle"
    /\ music_volume' = v
    /\ update_playback_volume(audiobook_volume, v)
    /\ UNCHANGED <<loadVars, speedVars, filterVars, render, probe, buildVars, app_settings, audiobook_volume, playbackVars>>

\* Playback driven by one caller, with the volume sliders moved at any time
NextVolume ==
    \/ toggle_play_pause
    \/ stop_preview
    \/ \E w \in Workers : thread_run(w)
    \/ \E t \in Threads : stop_playback_wait(t)
    \/ \E t \in Threads : stop_playback_unlink(t)
    \/ \E t \in Threads : setup(t)
    \/ \E t \in Threads : spawned(t)
    \/ \E t \in Threads : poll_file(t)
    \/ \E t \in Threads : poll_proc(t)
    \/ \E t \in Threads : handler_read(t)
    \/ \E t \in Threads : thread_return(t)
    \/ \E c \in Calls : engine_write(c)
    \/ \E c \in Calls : engine_exit(c)
    \/ music_ends
    \/ \E v \in AudiobookGains : set_audiobook_volume(v)
    \/ \E v \in MusicGains : set_music_volume(v)

\* one audiobook file, streamed; background music loaded or not
InitVolume == InitSeq /\ audiobook_files = <<>> /\ ~audiobook

SpecVolume == InitVolume /\ [][NextVolume]_vars

\* =================================================================
\* Speed slider: set_audiobook_speed and the debounced restart
\* =================================================================
SpeedMin == 500     \* 0.5
SpeedMax == 2000    \* 2.0

\* the mutation of set_audiobook_speed: the value is stored as given
set_audiobook_speed_unclamped(speed) == speed

\* set_audiobook_speed(speed): max(0.5, min(2.0, speed))
set_audiobook_speed(speed) ==
    IF speed > SpeedMax THEN SpeedMax ELSE IF speed < SpeedMin THEN SpeedMin ELSE speed

SliderSpeeds == {1000, 1500}   \* positions of the speed slider that are visited
ReleaseDelay == 800            \* root.after(800, ...) of on_speed_slider_release
ChangeDelay == 1000            \* root.after(1000, ...) of on_speed_change
SaveDelay == 2000              \* root.after(2000, ...) of schedule_save_settings

\* on_speed_slider_press: the mouse button goes down on the slider
on_speed_slider_press ==
    /\ th["gui"].pc = "idle"
    /\ ~is_adjusting_speed
    /\ is_adjusting_speed' = TRUE
    /\ UNCHANGED <<loadVars, volumeVars, filterVars, render, probe, buildVars, app_settings, audiobook_speed, speed_adjust_timer,
                   playbackVars>>

\* on_speed_slider_release: the pending timer is replaced by one of 800 ms,
\* while is_playing
on_speed_slider_release ==
    /\ th["gui"].pc = "idle"
    /\ is_adjusting_speed
    /\ is_adjusting_speed' = FALSE
    /\ speed_adjust_timer' = IF is_playing THEN ReleaseDelay ELSE speed_adjust_timer
    /\ UNCHANGED <<loadVars, volumeVars, filterVars, render, probe, buildVars, app_settings, audiobook_speed, playbackVars>>

\* schedule_save_settings(): with auto-reload on, the pending save is
\* replaced by one in 2000 ms
schedule_save_settings(s) ==
    IF ~s.auto_reload_var THEN s ELSE [s EXCEPT !.save_settings_timer = SaveDelay]

\* on_speed_change(value): the speed is stored and a save of the settings
\* scheduled; the pending timer is replaced by one of 1000 ms while
\* is_playing and the slider is not being dragged
on_speed_change(value) ==
    /\ th["gui"].pc = "idle"
    /\ audiobook_speed' = set_audiobook_speed(value)
    /\ app_settings' = schedule_save_settings(app_settings)
    /\ speed_adjust_timer' = IF is_playing /\ ~is_adjusting_speed
                              THEN ChangeDelay ELSE speed_adjust_timer
    /\ UNCHANGED <<loadVars, volumeVars, filterVars, render, probe, buildVars, is_adjusting_speed, playbackVars>>

\* TkTick ms pass in the Tk event loop without the timer becoming due
tk_elapse ==
    /\ speed_adjust_timer # Absent /\ speed_adjust_timer > 0
    /\ speed_adjust_timer' = IF speed_adjust_timer > TkTick
                              THEN speed_adjust_timer - TkTick ELSE 0
    /\ UNCHANGED <<loadVars, volumeVars, filterVars, render, probe, buildVars, app_settings, audiobook_speed, is_adjusting_speed,
                   playbackVars>>

\* _apply_settings_change, run by the timer when it is due: while is_playing a
\* daemon thread is started that runs play_mix(get_playback_position())
apply_settings_change ==
    /\ th["gui"].pc = "idle"
    /\ speed_adjust_timer = 0
    /\ speed_adjust_timer' = Absent
    /\ IF is_playing
       THEN /\ calls < MaxCalls
            /\ calls' = calls + 1
            /\ \E i \in 1..Len(WorkerPool) :
                  /\ FreeWorker(i)
                  /\ th' = [th EXCEPT ![WorkerPool[i]] =
                              [IdleThread EXCEPT !.pc = "start", !.op = "restart",
                                                 !.sid = calls + 1,
                                                 !.start = get_playback_position]]
       ELSE UNCHANGED <<calls, th>>
    /\ UNCHANGED <<loadVars, volumeVars, filterVars, render, probe, buildVars, app_settings, audiobook_speed, is_adjusting_speed,
                   anchorVars, is_playing, streaming_process,
                   current_playback_file, mixerVars, proc, wav, concat, now,
                   seek_var>>

\* Playback started by one Play click, with the speed slider in use
NextSpeed ==
    \/ toggle_play_pause
    \/ \E w \in Workers : thread_run(w)
    \/ \E t \in Threads : stop_playback_wait(t)
    \/ \E t \in Threads : stop_playback_unlink(t)
    \/ \E t \in Threads : setup(t)
    \/ \E t \in Threads : spawned(t)
    \/ \E t \in Threads : poll_file(t)
    \/ \E t \in Threads : poll_proc(t)
    \/ \E t \in Threads : handler_read(t)
    \/ \E t \in Threads : thread_return(t)
    \/ \E c \in Calls : engine_write(c)
    \/ \E c \in Calls : engine_exit(c)
    \/ on_speed_slider_press
    \/ on_speed_slider_release
    \/ \E v \in SliderSpeeds : on_speed_change(v)
    \/ tk_elapse
    \/ apply_settings_change

\* one audiobook file, streamed; background music loaded or not
InitSpeed == InitSeq /\ audiobook_files = <<>> /\ ~audiobook

SpecSpeed == InitSpeed /\ [][NextSpeed]_vars

\* =================================================================
\* set_audiobook_speed and _build_atempo_filter as functions of their argument
\* =================================================================
\* The filter's argument is a fixed-point number, 1.0 = FilterScale; the
\* factors it prints have three decimals (thousandths).
FilterScale == 1000000

\* f"{x:.3f}": x rounded to thousandths
format3(x) == (x + 500) \div 1000

\* while remaining_speed > 2.0: filters.append("atempo=2.0"); remaining_speed /= 2.0
RECURSIVE atempo_high(_, _)
atempo_high(filters, remaining_speed) ==
    IF remaining_speed > 2 * FilterScale
    THEN atempo_high(Append(filters, 2000), remaining_speed \div 2)
    ELSE [filters |-> filters, remaining_speed |-> remaining_speed]

\* while remaining_speed < 0.5: filters.append("atempo=0.5"); remaining_speed /= 0.5
RECURSIVE atempo_low(_, _)
atempo_low(filters, remaining_speed) ==
    IF remaining_speed < FilterScale \div 2
    THEN atempo_low(Append(filters, 500), remaining_speed * 2)
    ELSE [filters |-> filters, remaining_speed |-> remaining_speed]

\* the mutation of _build_atempo_filter: one stage with the speed itself
build_atempo_filter_one_stage(speed) ==
    IF speed = FilterScale THEN <<>> ELSE <<format3(speed)>>

\* _build_atempo_filter(speed): the factors of the atempo stages, in order
build_atempo_filter(speed) ==
    IF speed = FilterScale THEN <<>>
    ELSE LET h == atempo_high(<<>>, speed)
             l == atempo_low(h.filters, h.remaining_speed)
         IN  IF l.remaining_speed # FilterScale
             THEN Append(l.filters, format3(l.remaining_speed))
             ELSE l.filters

\* arguments of set_audiobook_speed (thousandths): in and out of [0.5, 2.0]
SpeedInputs == {0 - 1000, 0, 250, 499, 500, 1000, 1300, 2000, 2001, 3000}

\* arguments of _build_atempo_filter (millionths): positive speeds up to 4.0
FilterSpeeds == {250000, 400000, 499600, 500000, 800000, 1000000, 1000400,
                 1234600, 1300000, 2000000, 2000400, 3000000, 3999800}

set_audiobook_speed_call(s) ==
    /\ speed_arg' = s
    /\ audiobook_speed' = set_audiobook_speed(s)
    /\ UNCHANGED <<loadVars, volumeVars, is_adjusting_speed, speed_adjust_timer,
                   atempo_arg, atempo_chain, render, probe, buildVars, app_settings, playbackVars>>

build_atempo_filter_call(s) ==
    /\ atempo_arg' = s
    /\ atempo_chain' = build_atempo_filter(s)
    /\ UNCHANGED <<loadVars, volumeVars, speedVars, speed_arg, render, probe, buildVars, app_settings, playbackVars>>

NextFilter ==
    \/ \E s \in SpeedInputs : set_audiobook_speed_call(s)
    \/ \E s \in FilterSpeeds : build_atempo_filter_call(s)

SpecFilter == InitSeq /\ [][NextFilter]_vars

\* =================================================================
\* render_to_file
\* =================================================================
ThrottleInterval == 3     \* 0.3 s, in tenths of a second
ErrorLinesKept == 5       \* error_lines[-5:]
TailChars == 500          \* stderr_text[-500:]
MegaByte == 1048576       \* 1024 * 1024

\* What the engine prints on stderr: with -stats, lines "time=HH:MM:SS.ms"
\* (cs: the seconds they parse to); otherwise diagnostics, some of which
\* contain error / invalid / failed.  len: characters, newline included.
StatLines == { [kw |-> "time", cs |-> c, len |-> 80] : c \in {0, 2, 6} }
DiagLines == { [kw |-> "error", cs |-> 0, len |-> 60],
               [kw |-> "failed", cs |-> 0, len |-> 40],
               [kw |-> "other", cs |-> 0, len |-> 300] }
EngineLines(script) == IF script = "stats" THEN StatLines ELSE DiagLines
MaxLines(script) == IF script = "stats" THEN MaxStatLines ELSE MaxDiagLines

Durations == {0, 4}              \* ffprobe results in seconds; 0: no duration
OutputSizes == {Absent, 104857, 104858}   \* output file: absent, or bytes
ExitCodes == {0, 1}

\* the mutation of throttled: every time= line is reported
throttled_never(current_time, last) == FALSE

\* current_time - last_update_time < 0.3
throttled(current_time, last) == current_time - last < ThrottleInterval

\* the mutation of progress_pct: the ratio as a percentage of the whole bar
progress_pct_whole(current_seconds, duration) ==
    Min(95, (Min(current_seconds, duration) * 100) \div duration)

\* progress_ratio = min(current_seconds / adjusted_duration, 1.0)
\* progress_pct = min(95, 20 + int(progress_ratio * 75))
progress_pct(current_seconds, duration) ==
    Min(95, 20 + (Min(current_seconds, duration) * 75) \div duration)

\* progress_callback(pct, ...): the calls made so far, with the wall time,
\* the timestamp parsed (encoding loop only) and whether the loop made it
progress_callback(r, pct, cs, enc) ==
    Append(r.progress, [pct |-> pct, t |-> r.now, cs |-> cs, enc |-> enc])

\* 'error' in line.lower() or 'invalid' in line.lower() or 'failed' in line.lower()
IsErrorLine(l) == l.kw \in {"error", "invalid", "failed"}

RECURSIVE error_lines(_)
error_lines(lines) ==
    IF lines = <<>> THEN <<>>
    ELSE IF IsErrorLine(Head(lines)) THEN <<Head(lines)>> \o error_lines(Tail(lines))
    ELSE error_lines(Tail(lines))

\* lines[-n:]
LastLines(lines, n) ==
    IF Len(lines) <= n THEN lines ELSE SubSeq(lines, Len(lines) - n + 1, Len(lines))

\* ''.join(lines)[-n:]: the lines it takes from, each with the number of its
\* characters taken
RECURSIVE LastChars(_, _)
LastChars(lines, n) ==
    IF lines = <<>> \/ n <= 0 THEN <<>>
    ELSE LET last == lines[Len(lines)]
             front == SubSeq(lines, 1, Len(lines) - 1)
         IN  IF last.len >= n THEN <<[line |-> last, chars |-> n]>>
             ELSE Append(LastChars(front, n - last.len), [line |-> last, chars |-> last.len])

\* the message of a non-zero exit: the last 5 error lines, or the last 500
\* characters of the stream when there is none
error_summary(lines) ==
    IF error_lines(lines) # <<>>
    THEN [kind |-> "error_lines", lines |-> LastLines(error_lines(lines), ErrorLinesKept)]
    ELSE [kind |-> "tail", lines |-> LastChars(lines, TailChars)]

Message(k) == [kind |-> k, lines |-> <<>>]

\* the mutation of output_too_small: the size is not looked at
output_too_small_never(size) == FALSE

\* file_size = os.path.getsize(output_path) / (1024 * 1024); file_size < 0.1
output_too_small(size) == size * 10 < MegaByte

renderRest == <<loadVars, volumeVars, speedVars, filterVars, playbackVars, probe, buildVars, app_settings>>

\* render_to_file(output_path, progress_callback) up to the first ffprobe
\* call; on names the thread that runs it ("worker": the render thread of
\* render_audio, "main": a caller on the main thread)
render_to_file(on, script) ==
    /\ render.pc = "idle"
    /\ IF ~GuiHasSources
       THEN render' = [render EXCEPT !.pc = "returned", !.on = on, !.ret = "fail",
                                     !.msg = Message("Please load both")]
       ELSE IF audiobook /\ background_music
       THEN \E mixed \in BOOLEAN :
              LET r1 == [render EXCEPT !.on = on,
                                       !.progress = progress_callback(render, 10, 0, FALSE)]
                  r2 == [r1 EXCEPT !.progress = progress_callback(r1, 50, 0, FALSE)]
                  r3 == [r2 EXCEPT !.progress = progress_callback(r2, 100, 0, FALSE)]
              IN  render' = IF mixed
                            THEN [r3 EXCEPT !.pc = "returned", !.ret = "ok",
                                            !.msg = Message("Audio saved to")]
                            ELSE [r1 EXCEPT !.pc = "returned", !.ret = "fail",
                                            !.msg = Message("Error mixing audio")]
       ELSE LET r1 == [render EXCEPT !.on = on, !.script = script,
                                     !.progress = progress_callback(render, 10, 0, FALSE)]
            IN  render' = [r1 EXCEPT !.pc = "probe",
                             !.progress = IF Multi THEN progress_callback(r1, 15, 0, FALSE)
                                          ELSE r1.progress]
    /\ UNCHANGED renderRest

\* get_audio_duration has answered: without a duration the call returns,
\* otherwise the concat list is written (multi-file) and the engine spawned
render_spawn(duration) ==
    /\ render.pc = "probe"
    /\ IF duration = 0
       THEN render' = [render EXCEPT !.pc = "returned", !.ret = "fail",
                                     !.msg = Message("Could not determine audiobook duration")]
       ELSE render' = [render EXCEPT !.pc = "encoding",
                          !.adjusted_duration = (duration * SpeedScale) \div audiobook_speed,
                          !.concat = Multi,
                          !.progress = progress_callback(render, 20, 0, FALSE),
                          !.process = "run",
                          !.last_update_time = render.now]
    /\ UNCHANGED renderRest

\* one pass of the read loop with a line read from the engine's stderr
render_readline(line) ==
    /\ render.pc = "encoding"
    /\ render.process = "run"
    /\ line \in EngineLines(render.script)
    /\ Len(render.stderr_lines) < MaxLines(render.script)
    /\ LET r1 == [render EXCEPT !.stderr_lines = Append(@, line)]
       IN  render' =
             IF line.kw # "time" \/ throttled(render.now, render.last_update_time)
             THEN r1
             ELSE IF render.adjusted_duration > 0 /\ line.cs > 0
             THEN [r1 EXCEPT !.last_update_time = render.now,
                             !.progress = progress_callback(r1,
                                  progress_pct(line.cs, render.adjusted_duration),
                                  line.cs, TRUE)]
             ELSE [r1 EXCEPT !.last_update_time = render.now]
    /\ UNCHANGED renderRest

\* a tenth of a second of wall time passes while the engine encodes
render_tick ==
    /\ render.pc = "encoding"
    /\ render.script = "stats"
    /\ render.now < MaxRenderTime
    /\ render' = [render EXCEPT !.now = @ + 1]
    /\ UNCHANGED renderRest

\* the engine exits: by itself with an exit code and an output file, or
\* after SIGTERM
render_engine_exit ==
    /\ render.process \in {"run", "term"}
    /\ IF render.process = "term"
       THEN render' = [render EXCEPT !.process = "dead", !.returncode = 255]
       ELSE \E code \in ExitCodes, size \in OutputSizes :
              render' = [render EXCEPT !.process = "dead", !.returncode = code,
                                       !.output = size]
    /\ UNCHANGED renderRest

\* the loop looks at the process only when a line has been read
read_loop_ends_on_line == FALSE

\* readline() returns '' at end of file, which the pipe reaches when the
\* engine has exited (process = "dead": the lines it wrote have been read);
\* poll() is then not None
read_loop_ends == render.process = "dead"

\* readline returns '' and poll() is not None: the loop ends, the exit code
\* and the output file are checked and the call returns
render_finish ==
    /\ render.pc = "encoding"
    /\ read_loop_ends
    /\ render' =
         IF render.returncode # 0
         THEN [render EXCEPT !.pc = "returned", !.ret = "fail",
                             !.msg = error_summary(render.stderr_lines)]
         ELSE IF render.output = Absent
         THEN [render EXCEPT !.pc = "returned", !.ret = "fail",
                             !.msg = Message("Output file was not created")]
         ELSE IF output_too_small(render.output)
         THEN [render EXCEPT !.pc = "returned", !.ret = "fail",
                             !.msg = Message("Output file is too small")]
         ELSE [render EXCEPT !.pc = "returned", !.ret = "ok",
                             !.concat = FALSE,
                             !.progress = progress_callback(render, 100, 0, FALSE),
                             !.msg = Message("Audio saved to")]
    /\ UNCHANGED renderRest

\* The user interrupts (SIGINT): Python raises KeyboardInterrupt in the main
\* thread.  When the main thread runs render_to_file its handler terminates
\* the engine.  When the render thread runs it, the exception reaches the Tk
\* main loop instead: either a callback wrapper reports it and the
\* application goes on, or the main loop ends and the render thread, a
\* daemon, ends with the interpreter.
keyboard_interrupt ==
    /\ render.pc = "encoding"
    /\ ~render.interrupted
    /\ IF render.on = "main"
       THEN render' = [render EXCEPT !.interrupted = TRUE, !.pc = "cancel_wait",
                          !.process = IF @ = "run" THEN "term" ELSE @]
       ELSE \E exits \in BOOLEAN :
              render' = [render EXCEPT !.interrupted = TRUE,
                                       !.pc = IF exits THEN "aborted" ELSE @]
    /\ UNCHANGED renderRest

\* process.wait(timeout=2) of the KeyboardInterrupt handler returns, or
\* times out and process.kill() is called; the call returns
render_cancelled ==
    /\ render.pc = "cancel_wait"
    /\ render' = [render EXCEPT !.pc = "returned", !.ret = "cancelled",
                      !.msg = Message("Render cancelled by user"),
                      !.process = "dead",
                      !.returncode = IF render.process = "dead" THEN @ ELSE 255]
    /\ UNCHANGED renderRest

NextRender ==
    \/ \E on \in {"main", "worker"}, script \in {"stats", "diag"} : render_to_file(on, script)
    \/ \E duration \in Durations : render_spawn(duration)
    \/ \E line \in StatLines \cup DiagLines : render_readline(line)
    \/ render_tick
    \/ render_engine_exit
    \/ render_finish
    \/ keyboard_interrupt
    \/ render_cancelled

SpecRender == InitSeq /\ [][NextRender]_vars

\* =================================================================
\* Properties
\* =================================================================
Alive(c) == proc[c] \in {"run", "term"}
MixOps == {"play", "preview", "seek", "restart"}

\* C1: at any time at most one engine process started by the processor is
\* alive, and every live one is the one streaming_process refers to.
C1_OneEngineReferenced ==
    \A c \in Calls : Alive(c) => streaming_process = c

\* C2: when stop_playback, called while a play_mix / preview_mix call was in
\* its buffering loop (and no other call in flight), has returned, the engine
\* of that call is dead, its temporary output file is gone and nothing plays:
\* the interrupted call does not start playback afterwards.
C2_StopWhileBuffering ==
    \A w \in Workers :
        ( /\ th["gui"].op = "stop" /\ th["gui"].pc = "returned"
          /\ th["gui"].sid # None /\ th[w].sid = th["gui"].sid
          /\ \A v \in Workers \ {w} : th[v].pc = "idle" )
        => ( /\ ~Alive(th[w].sid)
             /\ wav[th[w].sid] = Absent
             /\ ~is_playing
             /\ mixer_state # "playing" )

\* C3: at the moment a play_mix call has spawned its engine, the old session
\* is fully stopped: no other engine is alive, no other temporary output file
\* exists, the player is not playing and is_playing is false.
C3_OldSessionStoppedAtSpawn ==
    \A t \in Threads :
        (th[t].pc = "spawned" /\ IsPlayOp(th[t].op))
        => ( /\ \A c \in Calls \ {th[t].sid} : ~Alive(c) /\ wav[c] = Absent
             /\ mixer_state # "playing"
             /\ ~is_playing )

\* C4: when play_mix / preview_mix has returned failure after spawning an
\* engine process, that process is not running any more.
C4_NoEngineAfterFailure ==
    \A t \in Threads :
        ( /\ th[t].pc = "returned" /\ th[t].ret = "fail" /\ th[t].op \in MixOps
          /\ th[t].sid # None /\ proc[th[t].sid] # "none" )
        => ~Alive(th[t].sid)

\* C5: when stop_playback has returned, no temporary output (.wav) file
\* created by an earlier play_mix / preview_mix / seek_to_position exists.
C5_NoTempFileAfterStop ==
    (th["gui"].pc = "returned" /\ th["gui"].op = "stop")
    => \A c \in Calls : wav[c] = Absent

\* C6: when play_mix / preview_mix has returned, however it ended, the concat
\* list it created is deleted.
C6_ConcatListDeleted ==
    \A t \in Threads :
        (th[t].pc = "returned" /\ th[t].op \in MixOps /\ th[t].sid # None)
        => ~concat[th[t].sid]

\* C7: whenever the code drops the handle of an owned engine process
\* (streaming_process becomes None), that process is dead.
C7_DeadBeforeHandleDropped ==
    [][ (streaming_process # None /\ streaming_process' = None)
        => proc'[streaming_process] = "dead" ]_vars

\* C8: while a session stays paused, get_playback_position stays at the
\* value it had.
C8_FrozenWhilePaused ==
    [][ (is_playing /\ is_playing' /\ mixer_state = "paused" /\ mixer_state' = "paused")
        => get_playback_position' = get_playback_position ]_vars

\* C9: after seek_to_position(p) has returned success while idle, the position
\* the processor reports is p.
C9_IdleSeekRemembered ==
    (th["gui"].pc = "returned" /\ th["gui"].op = "seek_idle" /\ th["gui"].ret = "ok")
    => get_playback_position = th["gui"].start

\* C10: when seek_to_position(p), called while a session plays, has returned:
\* on success exactly one session is active and its position anchor is p; on
\* failure no session is active.
C10_SeekRestart ==
    (th["gui"].pc = "returned" /\ th["gui"].op = "seek")
    => IF th["gui"].ret = "ok"
       THEN /\ is_playing
            /\ current_playback_file = th["gui"].sid
            /\ playback_start_position = th["gui"].start
            /\ \A c \in Calls \ {th["gui"].sid} : ~Alive(c)
       ELSE /\ ~is_playing
            /\ mixer_state # "playing"
            /\ \A c \in Calls : ~Alive(c)

\* C11: set_audiobook_volume and set_music_volume never stop, terminate or
\* restart the engine or the player: a step that changes a stored gain or the
\* player volume leaves is_playing, streaming_process, current_playback_file,
\* the position anchors, the engine processes and the player state unchanged,
\* and the player volume it sets lies in [0.0, 1.0].
C11_VolumeLive ==
    [][ ( audiobook_volume' # audiobook_volume \/ music_volume' # music_volume
          \/ mixer_volume' # mixer_volume )
        => ( /\ UNCHANGED <<is_playing, streaming_process, current_playback_file,
                            anchorVars, mixerVars, proc, wav>>
             /\ mixer_volume' \in 0..VolScale
             /\ current_pygame_volume' = mixer_volume' ) ]_vars

\* the music gain was lowered while a session plays: the player has the new
\* combined volume and the engine of the session is still running
C11_Witness ==
    /\ is_playing /\ get_busy
    /\ streaming_process # None /\ proc[streaming_process] = "run"
    /\ audiobook_volume = 0 /\ music_volume = 0 - 30
    /\ mixer_volume = clamp01(combined_linear(0, 0 - 30))
    /\ mixer_volume < VolScale

\* C12: while playing, a burst of speed-slider changes causes one restart of
\* streaming, after the last change of the burst and never while the slider
\* is still being dragged: the timer never starts a restart while
\* is_adjusting_speed.
C12_NoRestartWhileDragging ==
    [][ (speed_adjust_timer = 0 /\ speed_adjust_timer' = Absent /\ calls' = calls + 1)
        => ~is_adjusting_speed ]_vars

\* C13: after any sequence of set_audiobook_speed calls audiobook_speed lies
\* in [0.5, 2.0]: a value in the range is stored, a value outside it is
\* clamped to the nearest bound.
C13_SpeedClamped ==
    /\ audiobook_speed \in SpeedMin..SpeedMax
    /\ speed_arg # Absent =>
          audiobook_speed = ( IF speed_arg > SpeedMax THEN SpeedMax
                              ELSE IF speed_arg < SpeedMin THEN SpeedMin
                              ELSE speed_arg )

\* set_audiobook_speed(3.0) has stored 2.0
C13_Witness == speed_arg = 3000 /\ audiobook_speed = SpeedMax

\* the speeds the claim C14 is about: 0.5, 1.0, 1.3, 2.0, 3.0, 0.25
ClaimSpeeds == {500000, 1000000, 1300000, 2000000, 3000000, 250000}

\* product of the factors of a chain, in millionths
RECURSIVE ChainProduct(_)
ChainProduct(chain) ==
    IF chain = <<>> THEN FilterScale
    ELSE Head(chain) * (ChainProduct(Tail(chain)) \div 1000)

\* C14: for every speed in {0.5, 1.0, 1.3, 2.0, 3.0, 0.25} the chain built by
\* _build_atempo_filter has every factor in [0.5, 2.0] and a product within
\* 1e-3 of the speed; for speed 1.0 the chain is empty.
C14_AtempoChain ==
    atempo_arg \in ClaimSpeeds =>
        /\ \A i \in 1..Len(atempo_chain) : atempo_chain[i] \in 500..2000
        /\ ChainProduct(atempo_chain) - atempo_arg \in (0 - 1000)..1000
        /\ atempo_arg = FilterScale => atempo_chain = <<>>

\* _build_atempo_filter(3.0) has built atempo=2.0,atempo=1.500
C14_Witness == atempo_arg = 3000000 /\ atempo_chain = <<2000, 1500>>

\* the progress callbacks made by the encoding loop of render_to_file
EncodingCalls == {i \in 1..Len(render.progress) : render.progress[i].enc}

\* C15: within one render_to_file run every percentage reported while the
\* engine encodes lies in [20, 95], and the percentages never decrease from
\* one parsed timestamp to the next, whatever time= lines the engine prints.
C15_ProgressMonotone ==
    /\ \A i \in EncodingCalls : render.progress[i].pct \in 20..95
    /\ \A i, j \in EncodingCalls :
          i < j => render.progress[i].pct <= render.progress[j].pct

\* n / d rounded to the nearest integer
Round(n, d) == (2 * n + d) \div (2 * d)

\* C16 as stated: the percentage reported for a parsed timestamp equals
\* min(95, 20 + round(75 * min(currentSeconds / targetDuration, 1.0))).
C16_ProgressRounded ==
    \A i \in EncodingCalls :
        render.progress[i].pct =
            Min(95, 20 + Round(75 * Min(render.progress[i].cs, render.adjusted_duration),
                               render.adjusted_duration))

\* C16 amended: the percentage reported for a parsed timestamp equals
\* min(95, 20 + q), q the integer part of 75 * min(currentSeconds /
\* targetDuration, 1.0): the product is truncated, not rounded.
C16_ProgressTruncated ==
    \A i \in EncodingCalls :
        LET x == 75 * Min(render.progress[i].cs, render.adjusted_duration)
            q == render.progress[i].pct - 20
        IN  /\ render.progress[i].pct <= 95
            /\ q * render.adjusted_duration <= x
            /\ x < (q + 1) * render.adjusted_duration

\* time=00:00:02 of a 4 s render was reported as 57 %: 20 + int(37.5)
C16_Witness ==
    \E i \in EncodingCalls :
        /\ render.adjusted_duration = 4
        /\ render.progress[i].cs = 2
        /\ render.progress[i].pct = 57

\* C17: during encoding, two consecutive progress callbacks are at least 0.3 s
\* of wall time apart.
C17_ProgressThrottled ==
    \A i \in EncodingCalls :
        i > 1 => render.progress[i].t - render.progress[i - 1].t >= ThrottleInterval

\* the encoding loop has reported twice, and lines in between were skipped
C17_Witness ==
    /\ Cardinality(EncodingCalls) >= 2
    /\ Len(render.stderr_lines) > Cardinality(EncodingCalls)

RECURSIVE TotalLen(_)
TotalLen(lines) == IF lines = <<>> THEN 0 ELSE Head(lines).len + TotalLen(Tail(lines))

RECURSIVE TotalChars(_)
TotalChars(pieces) == IF pieces = <<>> THEN 0 ELSE Head(pieces).chars + TotalChars(Tail(pieces))

\* a render_to_file call that spawned the engine has returned, uninterrupted
EngineReturned ==
    render.pc = "returned" /\ render.process = "dead" /\ ~render.interrupted

\* C18: on the engine path render_to_file returns success if and only if the
\* exit code is zero and the output file exists with at least 0.1 MB; a
\* non-zero exit code returns failure with the last 5 diagnostic lines that
\* contain error / invalid / failed or, when there is none, the final 500
\* characters of the diagnostic stream.
C18_RenderOutcome ==
    EngineReturned =>
        LET errs == SelectSeq(render.stderr_lines, IsErrorLine)
            kept == render.msg.lines
            n == Len(render.stderr_lines)
        IN  /\ render.ret = "ok" <=>
                  ( render.returncode = 0 /\ render.output # Absent
                    /\ render.output * 10 >= MegaByte )
            /\ render.returncode # 0 =>
                  /\ render.ret = "fail"
                  /\ IF errs # <<>>
                     THEN /\ render.msg.kind = "error_lines"
                          /\ Len(kept) = Min(5, Len(errs))
                          /\ \A k \in 1..Len(kept) : kept[k] = errs[Len(errs) - Len(kept) + k]
                     ELSE /\ render.msg.kind = "tail"
                          /\ TotalChars(kept) = Min(500, TotalLen(render.stderr_lines))
                          /\ \A k \in 1..Len(kept) :
                                /\ kept[k].line = render.stderr_lines[n - Len(kept) + k]
                                /\ k > 1 => kept[k].chars = kept[k].line.len

\* a render whose engine exited with code 0 failed because the output file
\* is one byte short of 0.1 MB
C18_Witness ==
    /\ EngineReturned
    /\ render.returncode = 0 /\ render.output = 104857 /\ render.ret = "fail"

\* C19: a render in progress can be cancelled by the caller: the engine is
\* terminated (killed after the grace period) and render_to_file reports
\* "Render cancelled by user" with no engine process left alive.
C19_RenderCancelled ==
    (render.interrupted /\ render.pc \in {"returned", "aborted"})
    => (render.ret = "cancelled" /\ render.process = "dead")

\* thread t returns from a play_mix / preview_mix call in this step
ReturnsNow(t) ==
    th[t].pc # "returned" /\ th'[t].pc = "returned" /\ th'[t].op \in MixOps

\* C20 as stated: play_mix (preview_mix) hands the temporary file to the
\* player only if the file exists and has at least 200000 (100000) bytes;
\* otherwise it returns failure without starting playback.
C20_ReadyBeforeLoad ==
    [][ \A t \in Threads :
          ReturnsNow(t) =>
            IF th'[t].ret = "ok"
            THEN /\ wav'[th'[t].sid] # Absent
                 /\ wav'[th'[t].sid] >=
                      (IF th'[t].op = "preview" THEN PreviewMinFileSize ELSE PlayMinFileSize)
            ELSE UNCHANGED <<is_playing, mixer_state, current_playback_file>> ]_vars

\* C20 amended: the same for every call that streams from the engine, that
\* is every play_mix call and every preview_mix call made without both
\* sources in memory.
C20_ReadyBeforeLoadStreaming ==
    [][ \A t \in Threads :
          (ReturnsNow(t) /\ ~(th'[t].op = "preview" /\ InMemory)) =>
            IF th'[t].ret = "ok"
            THEN /\ wav'[th'[t].sid] # Absent
                 /\ wav'[th'[t].sid] >=
                      (IF th'[t].op = "preview" THEN PreviewMinFileSize ELSE PlayMinFileSize)
            ELSE UNCHANGED <<is_playing, mixer_state, current_playback_file>> ]_vars

\* a streaming preview plays a file that has reached the preview threshold
\* and not the playback threshold
C20_Witness ==
    \E t \in Threads :
        /\ th[t].pc = "returned" /\ th[t].op = "preview" /\ th[t].ret = "ok"
        /\ ~InMemory
        /\ current_playback_file = th[t].sid
        /\ wav[th[t].sid] >= PreviewMinFileSize /\ wav[th[t].sid] < PlayMinFileSize

\* C21: if the engine process of a play_mix / preview_mix call has exited
\* while the call is buffering, the call returns failure and the player is
\* not loaded or started for that session.
C21_EngineExitFailsCall ==
    [][ \A t \in Threads :
          ( /\ Buffering(t) /\ th'[t].pc = "returned"
            /\ th[t].sid # None /\ proc[th[t].sid] = "dead" )
          => ( /\ th'[t].ret = "fail"
               /\ UNCHANGED <<is_playing, mixer_state, current_playback_file>> ) ]_vars

\* One step of the code of thread t: Python schedules every thread that can
\* run.  Nothing is assumed of the engine: it may write or exit, or not.
thread_step(t) ==
    \/ thread_run(t)
    \/ stop_playback_wait(t)
    \/ stop_playback_unlink(t)
    \/ setup(t)
    \/ spawned(t)
    \/ poll_file(t)
    \/ poll_proc(t)
    \/ handler_read(t)

SpecBufferingFair ==
    InitSeq /\ [][NextThreads]_vars /\ \A t \in Threads : WF_vars(thread_step(t))

\* C22: every play_mix / preview_mix call that is begun returns, even if the
\* engine process never exits on its own.
C22_CallsReturn ==
    \A w \in Workers : (th[w].pc = "start") ~> (th[w].pc = "returned")

\* =================================================================
\* The processor called directly by one caller, with or without sources
\* =================================================================
\* Configurations in which a source was never loaded (after __init__:
\* audiobook_path None, audiobook_files [], music_path None).
MissingConfigs ==
    { [path |-> "None", files |-> <<>>, music |-> "None", mem |-> FALSE],
      [path |-> "None", files |-> <<>>, music |-> "music.mp3", mem |-> FALSE],
      [path |-> "None", files |-> <<"a.mp3", "b.mp3">>, music |-> "None", mem |-> FALSE] }

InitCalls == InitWith(SourceConfigs \cup MissingConfigs) /\ InitSettings /\ serialized = TRUE

\* the caller invokes play_mix(p)
play_mix_call(p) ==
    /\ GuiReady /\ render.pc = "idle"
    /\ calls < MaxCalls
    /\ calls' = calls + 1
    /\ mix_call("gui", "play", p, calls + 1)
    /\ UNCHANGED seek_var

\* the caller invokes preview_mix(10, p)
preview_mix_call(p) ==
    /\ GuiReady /\ render.pc = "idle"
    /\ calls < MaxCalls
    /\ calls' = calls + 1
    /\ mix_call("gui", "preview", p, calls + 1)
    /\ UNCHANGED seek_var

\* the caller invokes seek_to_position(p)
seek_to_position_call(p) == render.pc = "idle" /\ seek_call(p)

\* the caller invokes render_to_file, before any playback call
render_to_file_call(on, script) == GuiReady /\ calls = 0 /\ render_to_file(on, script)

NextCalls ==
    \/ \E p \in Positions : play_mix_call(p)
    \/ \E p \in Positions : preview_mix_call(p)
    \/ \E p \in Positions : seek_to_position_call(p)
    \/ \E t \in Threads : stop_playback_wait(t)
    \/ \E t \in Threads : stop_playback_unlink(t)
    \/ \E t \in Threads : setup(t)
    \/ \E t \in Threads : spawned(t)
    \/ \E t \in Threads : poll_file(t)
    \/ \E t \in Threads : poll_proc(t)
    \/ \E t \in Threads : handler_read(t)
    \/ \E t \in Threads : thread_return(t)
    \/ \E c \in Calls : engine_write(c)
    \/ \E c \in Calls : engine_exit(c)
    \/ render_to_file_call("main", "stats")
    \/ \E duration \in Durations : render_spawn(duration)
    \/ \E line \in StatLines : render_readline(line)
    \/ render_tick
    \/ render_engine_exit
    \/ render_finish
    \/ keyboard_interrupt
    \/ render_cancelled

SpecCalls == InitCalls /\ [][NextCalls]_vars

\* the audiobook source (single file and file list) or the music is not loaded
SourceMissing ==
    (audiobook_path = "None" /\ audiobook_files = <<>>) \/ music_path = "None"

\* what play_mix, preview_mix, seek_to_position and render_to_file keep in
\* the processor, the player and the file system
ProcessorState ==
    <<loadVars, volumeVars, audiobook_speed, is_playing, streaming_process,
      current_playback_file, anchorVars, mixerVars, proc, wav, concat>>

\* C23: with the audiobook source or the music not loaded, a call of
\* play_mix, preview_mix, seek_to_position or render_to_file returns at once
\* with failure and a message that names the missing sources; it spawns no
\* process, creates no temporary file and leaves the processor state unchanged.
C23_MissingSourcesFail ==
    [][ SourceMissing =>
          /\ (th["gui"].pc = "idle" /\ th'["gui"].pc # "idle") =>
                /\ th'["gui"].pc = "returned"
                /\ th'["gui"].ret = "fail"
                /\ th'["gui"].msg \in {"Please load both audiobook and background music first.",
                                       "No audio loaded"}
                /\ UNCHANGED ProcessorState
                /\ UNCHANGED render
          /\ (render.pc = "idle" /\ render'.pc # "idle") =>
                /\ render'.pc = "returned"
                /\ render'.ret = "fail"
                /\ render'.msg.kind = "Please load both"
                /\ render'.process = "none" /\ ~render'.concat
                /\ render'.output = Absent /\ render'.progress = <<>>
                /\ UNCHANGED ProcessorState ]_vars

\* play_mix was called with only the audiobook files loaded and has returned
\* failure; nothing was spawned or created
C23_Witness ==
    /\ audiobook_files # <<>> /\ music_path = "None"
    /\ th["gui"].pc = "returned" /\ th["gui"].op = "play" /\ th["gui"].ret = "fail"
    /\ \A c \in Calls : proc[c] = "none" /\ wav[c] = Absent /\ ~concat[c]

\* =================================================================
\* Duration probes: get_audio_duration and the operations that add them up
\* =================================================================
\* Durations (seconds) ffprobe reports for a readable audio file.
ProbeDurations == {3, 5}

\* What ffprobe prints on stdout: text that is JSON or not, with or without
\* a "format" object, with or without a "duration" in it that is a number
\* ("N/A": a string float() rejects).
Stdout(json, format, duration, seconds) ==
    [json |-> json, format |-> format, duration |-> duration, seconds |-> seconds]
MalformedStdouts ==
    { Stdout(FALSE, FALSE, "missing", 0),
      Stdout(TRUE, FALSE, "missing", 0),
      Stdout(TRUE, TRUE, "missing", 0),
      Stdout(TRUE, TRUE, "N/A", 0) }
DurationStdouts == { Stdout(TRUE, TRUE, "number", d) : d \in ProbeDurations }

\* What one subprocess.run of ffprobe on a file does: it raises (ffprobe is
\* missing, or the 10 s timeout expires) or completes with an exit code and
\* its output.
ProbeRuns ==
    { [file |-> "audio", run |-> e, returncode |-> 0, stdout |-> Stdout(FALSE, FALSE, "missing", 0)] :
          e \in {"FileNotFoundError", "TimeoutExpired"} }
    \cup { [file |-> f, run |-> "completed", returncode |-> 1, stdout |-> Stdout(TRUE, FALSE, "missing", 0)] :
          f \in {"nonexistent", "corrupt"} }
    \cup { [file |-> "corrupt", run |-> "completed", returncode |-> 1, stdout |-> Stdout(TRUE, TRUE, "number", 3)] }
    \cup { [file |-> "corrupt", run |-> "completed", returncode |-> 0, stdout |-> o] :
          o \in MalformedStdouts }
    \cup { [file |-> "audio", run |-> "completed", returncode |-> 0, stdout |-> o] :
          o \in DurationStdouts }

\* Values of a Python expression: an exception, None, or a float
Raise(e) == [raised |-> TRUE, exc |-> e, none |-> TRUE, value |-> 0]
NoneValue == [raised |-> FALSE, exc |-> "none", none |-> TRUE, value |-> 0]
Float(d) == [raised |-> FALSE, exc |-> "none", none |-> FALSE, value |-> d]

\* float(json.loads(result.stdout)['format']['duration'])
parse_duration(stdout) ==
    IF ~stdout.json THEN Raise("JSONDecodeError")
    ELSE IF ~stdout.format \/ stdout.duration = "missing" THEN Raise("KeyError")
    ELSE IF stdout.duration # "number" THEN Raise("ValueError")
    ELSE Float(stdout.seconds)

\* the try block of get_audio_duration
probe_body(r) ==
    IF r.run # "completed" THEN Raise(r.run)
    ELSE IF r.returncode = 0 THEN parse_duration(r.stdout)
    ELSE NoneValue

\* the mutation of get_audio_duration: without "except Exception"
get_audio_duration_unguarded(r) == probe_body(r)

\* get_audio_duration(file_path), r being what ffprobe does for the file
get_audio_duration(r) == IF probe_body(r).raised THEN NoneValue ELSE probe_body(r)

\* "if duration:" of the callers: None and 0.0 are false
Truthy(v) == ~v.none /\ v.value # 0

\* the mutation of total_duration: one failed probe voids the total
RECURSIVE total_duration_strict(_)
total_duration_strict(runs) ==
    IF runs = <<>> THEN 0
    ELSE IF ~Truthy(get_audio_duration(Head(runs))) THEN 0
    ELSE IF Tail(runs) # <<>> /\ total_duration_strict(Tail(runs)) = 0 THEN 0
    ELSE get_audio_duration(Head(runs)).value + total_duration_strict(Tail(runs))

\* total = 0; for file_path in files: d = get_audio_duration(file_path);
\* if d: total += d
RECURSIVE total_duration(_)
total_duration(runs) ==
    IF runs = <<>> THEN 0
    ELSE (IF Truthy(get_audio_duration(Head(runs)))
          THEN get_audio_duration(Head(runs)).value ELSE 0) + total_duration(Tail(runs))

\* Results of the operations that ask for a duration
Result(op, runs, ok, duration, msg) ==
    [op |-> op, runs |-> runs, ok |-> ok, raised |-> FALSE, none |-> FALSE,
     duration |-> duration, msg |-> msg]

\* self.audiobook_speed applied: duration / self.audiobook_speed
adjusted(duration) == (duration * SpeedScale) \div audiobook_speed

\* the duration play_mix and render_to_file go on with, or their failure
source_duration(op, runs) ==
    LET duration == IF Multi THEN total_duration(runs)
                    ELSE IF Truthy(get_audio_duration(runs[1]))
                         THEN get_audio_duration(runs[1]).value ELSE 0
    IN  IF duration = 0
        THEN Result(op, runs, FALSE, 0, "Could not determine audiobook duration")
        ELSE Result(op, runs, TRUE, duration, "none")

\* Length (seconds) of the audiobook segment held in memory
SegmentSeconds == 4

\* get_mixed_duration()
get_mixed_duration(runs) ==
    IF audiobook THEN Result("get_mixed_duration", <<>>, TRUE, adjusted(SegmentSeconds), "none")
    ELSE IF Multi /\ total_duration(runs) > 0
    THEN Result("get_mixed_duration", runs, TRUE, adjusted(total_duration(runs)), "none")
    ELSE IF audiobook_path # "None" /\ Truthy(get_audio_duration(runs[1]))
    THEN Result("get_mixed_duration", runs, TRUE,
                adjusted(get_audio_duration(runs[1]).value), "none")
    ELSE Result("get_mixed_duration", runs, TRUE, 0, "none")

\* Folders: the first n names of the pool
MaxFiles == 3
FilePool == <<<<"a">>, <<"b">>, <<"c">>, <<"d">>, <<"e">>>>   \* paths, as sequences of characters
FileNames(n) == SubSeq(FilePool, 1, n)
FolderConfigs ==
    { [path |-> "None", files |-> FileNames(n), music |-> "music.mp3", mem |-> FALSE] :
          n \in 1..MaxFiles }

\* What ffprobe does for each file of the current source: for a folder
\* that load_audiobook_folder has just probed, the same again.  A behaviour
\* makes one query, or loads a folder and makes one query.
SourceRuns ==
    IF probe.op = "load_audiobook_folder" THEN {probe.runs}
    ELSE IF probe.op # "none" THEN {}
    ELSE IF Multi THEN [1..Len(audiobook_files) -> ProbeRuns] ELSE [1..1 -> ProbeRuns]

\* what ffprobe does for each file of a folder about to be loaded
FolderRuns ==
    IF probe.op # "none" THEN {}
    ELSE UNION { [1..n -> ProbeRuns] : n \in 1..MaxFiles }

loaderRest == <<volumeVars, speedVars, filterVars, render, playbackVars, buildVars>>
probeRest == <<loaderRest, app_settings>>

get_audio_duration_call(r) ==
    /\ probe.op = "none"
    /\ probe' = [op |-> "get_audio_duration", runs |-> <<r>>, ok |-> TRUE,
                 raised |-> get_audio_duration(r).raised,
                 none |-> get_audio_duration(r).none,
                 duration |-> get_audio_duration(r).value, msg |-> "none"]
    /\ UNCHANGED <<loadVars, probeRest>>

\* play_mix up to "adjusted_duration = ..."
play_mix_duration_call(runs) ==
    /\ HasSources
    /\ probe' = source_duration("play_mix", runs)
    /\ UNCHANGED <<loadVars, probeRest>>

\* render_to_file, engine path, up to "adjusted_duration = ..."
render_to_file_duration_call(runs) ==
    /\ GuiHasSources /\ ~InMemory
    /\ probe' = source_duration("render_to_file", runs)
    /\ UNCHANGED <<loadVars, probeRest>>

get_mixed_duration_call(runs) ==
    /\ probe' = get_mixed_duration(runs)
    /\ UNCHANGED <<loadVars, probeRest>>

\* the mutation of no_files: the sequence is not looked at
no_files_unchecked(file_paths) == FALSE

\* "if not file_paths:"
no_files(file_paths) == file_paths = <<>>

\* load_audiobook_folder(file_paths): without paths the call fails at once;
\* otherwise the paths are stored, then every file is sized (os.path.getsize
\* raises for a file that does not exist) and probed; self.audiobook is
\* cleared after the loop
load_audiobook_folder(runs) ==
    LET n == Len(runs)
        getsize_raises == \E i \in 1..n : runs[i].file = "nonexistent" IN
    /\ IF no_files(FileNames(n))
       THEN /\ probe' = Result("load_audiobook_folder", runs, FALSE, 0, "No files provided")
            /\ UNCHANGED <<audiobook_files, audiobook_path, audiobook>>
       ELSE /\ audiobook_files' = FileNames(n)
            /\ audiobook_path' = "None"
            /\ audiobook' = IF getsize_raises THEN audiobook ELSE FALSE
            /\ probe' = IF getsize_raises
                        THEN Result("load_audiobook_folder", runs, FALSE, 0,
                                    "Error analyzing audiobook folder")
                        ELSE Result("load_audiobook_folder", runs, TRUE,
                                    total_duration(runs), "Ready")
    /\ UNCHANGED <<music_path, background_music, serialized, loaderRest>>

NextProbe ==
    \/ \E r \in ProbeRuns : get_audio_duration_call(r)
    \/ \E runs \in SourceRuns : play_mix_duration_call(runs)
    \/ \E runs \in SourceRuns : render_to_file_duration_call(runs)
    \/ \E runs \in SourceRuns : get_mixed_duration_call(runs)
    \/ \E runs \in FolderRuns : load_audiobook_folder(runs) /\ UNCHANGED app_settings

InitProbe == InitWith(SourceConfigs \cup FolderConfigs) /\ InitSettings /\ serialized = TRUE

SpecProbe == InitProbe /\ [][NextProbe]_vars

\* the cases of C24: a file that does not exist or is corrupt, output that
\* does not hold a duration, the timeout, a non-zero exit code
ProbeFails(r) ==
    \/ r.file \in {"nonexistent", "corrupt"}
    \/ r.run = "TimeoutExpired"
    \/ r.returncode # 0
    \/ r.stdout \in MalformedStdouts

\* C24: get_audio_duration never raises, and it returns None for a file that
\* does not exist, a corrupt file, malformed ffprobe output, a timeout and a
\* non-zero exit code of ffprobe.
C24_ProbeUnavailable ==
    probe.op = "get_audio_duration" =>
        /\ ~probe.raised
        /\ ProbeFails(probe.runs[1]) => probe.none

\* the probe of a file timed out and None was returned
C24_Witness ==
    /\ probe.op = "get_audio_duration"
    /\ probe.runs[1].run = "TimeoutExpired"
    /\ probe.none /\ ~probe.raised

\* C25: a failure inside play_mix / preview_mix reaches the caller as a
\* (False, message) pair; in particular a call in which the player fails to
\* load the file (pygame.error) returns failure.
C25_FailuresReported ==
    \A t \in Threads :
        (th[t].pc = "handler_read") ~> (th[t].pc = "returned" /\ th[t].ret = "fail")

\* ffprobe ran, exited with 0 and printed a duration
ProbeSucceeds(r) ==
    r.run = "completed" /\ r.returncode = 0 /\ r.stdout \in DurationStdouts

RECURSIVE SumSucceeded(_)
SumSucceeded(runs) ==
    IF runs = <<>> THEN 0
    ELSE (IF ProbeSucceeds(Head(runs)) THEN Head(runs).stdout.seconds ELSE 0)
         + SumSucceeded(Tail(runs))

\* a loaded folder of which some, not all, probes fail
PartialFailure(runs) ==
    /\ Multi /\ ~audiobook /\ Len(runs) = Len(audiobook_files)
    /\ \E i \in 1..Len(runs) : ~ProbeSucceeds(runs[i])
    /\ \E i \in 1..Len(runs) : ProbeSucceeds(runs[i])

\* C26: for a multi-file source of which some but not all duration probes
\* fail, play_mix, render_to_file and get_mixed_duration use the sum of the
\* successful probes (get_mixed_duration: divided by the speed) and do not
\* report the duration as unavailable.
C26_PartialProbeSum ==
    (probe.op \in {"play_mix", "render_to_file", "get_mixed_duration"}
       /\ PartialFailure(probe.runs))
    => /\ probe.ok
       /\ probe.msg # "Could not determine audiobook duration"
       /\ probe.duration > 0
       /\ probe.duration =
            IF probe.op = "get_mixed_duration"
            THEN (SumSucceeded(probe.runs) * SpeedScale) \div audiobook_speed
            ELSE SumSucceeded(probe.runs)

\* play_mix on three files, the probe of the second timed out: 3 + 5 seconds
C26_Witness ==
    /\ probe.op = "play_mix" /\ Len(probe.runs) = 3
    /\ ProbeSucceeds(probe.runs[1]) /\ probe.runs[1].stdout.seconds = 3
    /\ probe.runs[2].run = "TimeoutExpired"
    /\ ProbeSucceeds(probe.runs[3]) /\ probe.runs[3].stdout.seconds = 5
    /\ probe.ok /\ probe.duration = 8

\* C27: for a multi-file source of which every duration probe fails,
\* load_audiobook_folder, get_mixed_duration, play_mix and render_to_file
\* report the duration as unavailable ("Could not determine audiobook
\* duration") and never report or use a total of 0.
C27_AllProbesFailUnavailable ==
    ( /\ probe.op \in {"load_audiobook_folder", "get_mixed_duration", "play_mix",
                       "render_to_file"}
      /\ Multi /\ ~audiobook /\ Len(probe.runs) = Len(audiobook_files)
      /\ \A i \in 1..Len(probe.runs) :
            ~ProbeSucceeds(probe.runs[i]) /\ probe.runs[i].file # "nonexistent" )
    => ( /\ ~probe.ok
         /\ probe.msg = "Could not determine audiobook duration" )

\* C30: the GUI thread never runs play_mix, the grace-period wait of
\* stop_playback, an engine spawn or a buffering loop: it is never at one of
\* the blocking calls of the processor.
C30_GuiThreadNeverBlocks ==
    th["gui"].pc \notin {"stop_wait", "stop_unlink", "setup", "spawned", "poll_file",
                         "poll_proc", "handler_read"}

\* =================================================================
\* The engine command of play_mix and preview_mix
\* =================================================================
SeekPositions == {0, 1, 2}     \* start_position (seconds)
PreviewSeconds == {10}         \* duration_seconds of preview_mix

\* one option of the command line with its value (text, or a number)
Arg(flag, text, num) == [flag |-> flag, text |-> text, num |-> num]
\* one stage of the audiobook filter chain
Stage(name, start, end) == [name |-> name, start |-> start, end |-> end]

\* '-ac', '1', '-ar', '22050', '-acodec', 'pcm_s16le', '-f', 'wav', '-y', temp_path
OutputArgs ==
    <<Arg("-ac", "1", 0), Arg("-ar", "22050", 0), Arg("-acodec", "pcm_s16le", 0),
      Arg("-f", "wav", 0), Arg("-y", "temp_path", 0)>>

\* the mutation of seek_stage: the trim has no end
seek_stage_open(op, start_position, duration_seconds) ==
    IF start_position > 0 THEN <<Stage("atrim", start_position, Absent)>> ELSE <<>>

\* multi-file mode: "atrim=start=..." (preview_mix: ":end=...") in front of
\* the chain when start_position > 0
seek_stage(op, start_position, duration_seconds) ==
    IF start_position > 0
    THEN <<Stage("atrim", start_position,
                 IF op = "preview" THEN start_position + duration_seconds ELSE Absent)>>
    ELSE <<>>

\* ffmpeg_cmd of play_mix (duration: what the probe gave) and of preview_mix
build_command(op, start_position, duration_seconds, duration) ==
    LET atempo_filter == build_atempo_filter(audiobook_speed * 1000)
        chain == [i \in 1..Len(atempo_filter) |-> Stage("atempo", atempo_filter[i], Absent)]
                 \o <<Stage("volume", audiobook_volume, Absent)>>
        t == IF op = "preview" THEN duration_seconds
             ELSE adjusted(duration) - start_position
        mix == <<Arg("-stream_loop", "-1", 0), Arg("-i", music_path, 0),
                 Arg("-filter_complex", "graph", 0), Arg("-t", "", t)>>
    IN  [op |-> op, start_position |-> start_position,
         duration_seconds |-> duration_seconds, multi |-> Multi,
         args |-> IF Multi
                  THEN <<Arg("-f", "concat", 0), Arg("-safe", "0", 0),
                         Arg("-i", "concat_file_path", 0)>> \o mix \o OutputArgs
                  ELSE <<Arg("-ss", "", start_position), Arg("-i", audiobook_path, 0)>>
                       \o mix \o OutputArgs,
         audiobook_filter |-> IF Multi
                              THEN seek_stage(op, start_position, duration_seconds) \o chain
                              ELSE chain]

commandRest == <<loadVars, volumeVars, speedVars, filterVars, render, probe, playlist, stream, app_settings,
                 playbackVars>>

\* play_mix(start_position) builds its command
play_mix_command(start_position, duration) ==
    /\ HasSources
    /\ command' = build_command("play", start_position, 0, duration)
    /\ UNCHANGED commandRest

\* preview_mix(duration_seconds, start_position) builds its command
preview_mix_command(duration_seconds, start_position) ==
    /\ HasSources /\ ~InMemory
    /\ command' = build_command("preview", start_position, duration_seconds, 0)
    /\ UNCHANGED commandRest

NextCommand ==
    \/ \E s \in SpeedInputs : set_audiobook_speed_call(s)
    \/ \E p \in SeekPositions, duration \in ProbeDurations : play_mix_command(p, duration)
    \/ \E d \in PreviewSeconds, p \in SeekPositions : preview_mix_command(d, p)

SpecCommand == InitSeq /\ [][NextCommand]_vars

\* the places of the -ss options and of the trim stages of the last command
SeekOptions == {i \in 1..Len(command.args) : command.args[i].flag = "-ss"}
TrimStages ==
    {i \in 1..Len(command.audiobook_filter) : command.audiobook_filter[i].name = "atrim"}
\* the seek is a -ss option in front of every input, and no trim stage
SeekByOption ==
    /\ TrimStages = {}
    /\ \E i \in SeekOptions :
          /\ SeekOptions = {i}
          /\ command.args[i].num = command.start_position
          /\ \A j \in 1..Len(command.args) : command.args[j].flag = "-i" => i < j
\* the seek is one trim stage of the filter graph, and no -ss option
SeekByTrim ==
    /\ SeekOptions = {}
    /\ \E i \in TrimStages :
          /\ TrimStages = {i}
          /\ command.audiobook_filter[i].start = command.start_position
          /\ command.audiobook_filter[i].end =
                IF command.op = "preview"
                THEN command.start_position + command.duration_seconds ELSE Absent

\* C28 as stated: for every seek position the command of play_mix /
\* preview_mix expresses the seek as -ss before the primary input and no trim
\* stage (single file), or as an atrim stage with start = seek, and end =
\* seek + previewDuration when previewing, and no -ss (multi-file).
C28_SeekExpressed ==
    command.op # "none" => IF command.multi THEN SeekByTrim ELSE SeekByOption

\* C28 amended: the same for every seek position greater than 0; for a
\* multi-file source and seek position 0 the command has neither an atrim
\* stage nor a -ss option.
C28_SeekExpressedPositive ==
    command.op # "none" =>
        IF ~command.multi THEN SeekByOption
        ELSE IF command.start_position > 0 THEN SeekByTrim
        ELSE SeekOptions = {} /\ TrimStages = {}

\* a multi-file preview from second 2 trims from 2 to 12, at speed 2.0
C28_Witness ==
    /\ command.op = "preview" /\ command.multi /\ command.start_position = 2
    /\ command.audiobook_filter =
          <<Stage("atrim", 2, 12), Stage("atempo", 2000, Absent), Stage("volume", 0, Absent)>>

\* =================================================================
\* The concat list of a multi-file source
\* =================================================================
MaxPathLen == 3                        \* characters of a path
PathChars == {"a", "'", "\\", "\n"}     \* a letter, a quote, a backslash, a line break
Paths == UNION { [1..n -> PathChars] : n \in 1..MaxPathLen }
PathLists == UNION { [1..n -> Paths] : n \in 1..2 }

\* folders whose files have these paths
PathConfigs ==
    { [path |-> "None", files |-> fs, music |-> "music.mp3", mem |-> FALSE] :
          fs \in PathLists }

InitPlaylist == InitWith(PathConfigs) /\ InitSettings /\ serialized = TRUE

\* the mutation of replace_quote: the path is written as it is
replace_quote_none(file_path) == file_path

\* file_path.replace("'", "'\\''"): every quote becomes quote, backslash,
\* quote, quote
RECURSIVE replace_quote(_)
replace_quote(file_path) ==
    IF file_path = <<>> THEN <<>>
    ELSE (IF Head(file_path) = "'" THEN <<"'", "\\", "'", "'">> ELSE <<Head(file_path)>>)
         \o replace_quote(Tail(file_path))

\* for file_path in self.audiobook_files:
\*     concat_file.write(f"file '{safe_path}'\n")
RECURSIVE concat_file(_)
concat_file(file_paths) ==
    IF file_paths = <<>> THEN <<>>
    ELSE <<"file ", "'">> \o replace_quote(Head(file_paths)) \o <<"'", "\n">>
         \o concat_file(Tail(file_paths))

\* play_mix / preview_mix / render_to_file write the concat list
write_concat_file ==
    /\ Multi /\ ~playlist.written
    /\ playlist' = [written |-> TRUE, paths |-> audiobook_files,
                    text |-> concat_file(audiobook_files)]
    /\ UNCHANGED <<loadVars, volumeVars, speedVars, filterVars, render, probe, command, stream, app_settings,
                   playbackVars>>

NextPlaylist == write_concat_file

SpecPlaylist == InitPlaylist /\ [][NextPlaylist]_vars

\* Reading a concat list: the text is cut into lines; a line is the word
\* "file" and one token.  In a token a quote opens or closes a quoted part
\* in which every character stands for itself; outside one a backslash makes
\* the next character stand for itself.
RECURSIVE Lines(_, _)
Lines(text, line) ==
    IF text = <<>> THEN (IF line = <<>> THEN <<>> ELSE <<line>>)
    ELSE IF Head(text) = "\n" THEN <<line>> \o Lines(Tail(text), <<>>)
    ELSE Lines(Tail(text), Append(line, Head(text)))

RECURSIVE Token(_, _, _)
Token(chars, quoted, token) ==
    IF chars = <<>> THEN token
    ELSE IF quoted
    THEN IF Head(chars) = "'" THEN Token(Tail(chars), FALSE, token)
         ELSE Token(Tail(chars), TRUE, Append(token, Head(chars)))
    ELSE IF Head(chars) = "'" THEN Token(Tail(chars), TRUE, token)
    ELSE IF Head(chars) = "\\"
    THEN IF Tail(chars) = <<>> THEN token
         ELSE Token(Tail(Tail(chars)), FALSE, Append(token, Head(Tail(chars))))
    ELSE Token(Tail(chars), FALSE, Append(token, Head(chars)))

\* the list reads back as the paths written, one entry for each, in order
ReadsBack ==
    LET lines == Lines(playlist.text, <<>>) IN
    /\ Len(lines) = Len(playlist.paths)
    /\ \A i \in 1..Len(lines) :
          /\ lines[i] # <<>> /\ Head(lines[i]) = "file "
          /\ Token(Tail(lines[i]), FALSE, <<>>) = playlist.paths[i]

NoLineBreak(file_path) == \A i \in 1..Len(file_path) : file_path[i] # "\n"

render_step == render_finish \/ render_cancelled

\* a render whose engine prints progress lines
NextEncode ==
    \/ \E on \in {"main", "worker"} : render_to_file(on, "stats")
    \/ \E duration \in Durations : render_spawn(duration)
    \/ \E line \in {l \in StatLines : l.cs = 2} : render_readline(line)
    \/ render_tick
    \/ render_engine_exit
    \/ render_finish
    \/ keyboard_interrupt
    \/ render_cancelled

SpecRenderFair == InitVolume /\ [][NextEncode]_vars /\ WF_vars(render_step)

\* C31: during a render, once the engine process has exited the read loop
\* ends and render_to_file returns a result, even if no further diagnostic
\* line arrives after the last one read (an interrupt that ends the
\* interpreter itself ends the call without a result).
C31_RenderReturnsAfterExit ==
    (render.pc = "encoding" /\ render.process = "dead")
      ~> (render.pc \in {"returned", "aborted"})

\* the engine exited without printing a line and the call returned a result
C31_Witness ==
    /\ render.pc = "returned" /\ render.process = "dead"
    /\ render.ret \in {"ok", "fail"}
    /\ ~render.interrupted
    /\ render.stderr_lines = <<>>

\* C32: after stop_playback returns, from any prior state, all session
\* state is cleared: is_playing is false, streaming_process is None and
\* current_playback_file is None.
C32_StopClearsSession ==
    [][(th["gui"].pc # "returned" /\ th'["gui"].pc = "returned"
            /\ th'["gui"].op = "stop")
        => (~is_playing' /\ streaming_process' = None
              /\ current_playback_file' = None)]_vars

\* =================================================================
\* Loading the sources: load_audiobook, load_audiobook_folder,
\* load_background_music, and the source a later mix takes
\* =================================================================
\* the processor after __init__: nothing loaded
UnloadedConfigs == { [path |-> "None", files |-> <<>>, music |-> "None", mem |-> FALSE] }

InitLoad == InitWith(UnloadedConfigs) /\ InitSettings /\ serialized = TRUE

\* Files given to the loaders: a file that does not exist, a corrupt file,
\* an audio file whose probe times out, an audio file of 3 seconds
LoadRuns ==
    { r \in ProbeRuns :
        \/ r.file = "nonexistent"
        \/ r.file = "corrupt" /\ r.returncode = 1 /\ r.stdout.duration = "missing"
        \/ r.run = "TimeoutExpired"
        \/ r.file = "audio" /\ r.run = "completed" /\ r.stdout.seconds = 3 }
AudiobookNames == {"book.mp3", "other.mp3"}
MusicNames == {"music.mp3", "tune.mp3"}
\* the folders given to load_audiobook_folder: no file, one file, two files
LoadFolders == {<<>>} \cup [1..1 -> LoadRuns] \cup [1..2 -> LoadRuns]

\* The body of load_audiobook / load_background_music after the path has
\* been stored.  segment: the in-memory audio held before the call.
\* large: the file is above the size limit of the loader; memory_error:
\* AudioSegment.from_mp3 runs out of memory.  The result: what the call
\* returns and the in-memory audio afterwards.
load_file(op, r, large, memory_error, segment) ==
    IF r.file = "nonexistent"
    THEN [result |-> Result(op, <<r>>, FALSE, 0, "Error analyzing"), segment |-> segment]
    ELSE IF large
    THEN IF get_audio_duration(r).none
         THEN [result |-> Result(op, <<r>>, FALSE, 0, "Error analyzing"), segment |-> FALSE]
         ELSE [result |-> Result(op, <<r>>, TRUE, get_audio_duration(r).value, "Ready"),
               segment |-> FALSE]
    ELSE IF r.file = "corrupt"
    THEN [result |-> Result(op, <<r>>, FALSE, 0, "Audio format issue"), segment |-> segment]
    ELSE IF memory_error
    THEN [result |-> Result(op, <<r>>, TRUE, 0, "Ready for streaming"), segment |-> FALSE]
    ELSE [result |-> Result(op, <<r>>, TRUE, SegmentSeconds, "Loaded"), segment |-> TRUE]

\* load_audiobook(file_path)
load_audiobook(file_path, r, large, memory_error) ==
    /\ audiobook_path' = file_path
    /\ audiobook' = load_file("load_audiobook", r, large, memory_error, audiobook).segment
    /\ probe' = load_file("load_audiobook", r, large, memory_error, audiobook).result
    /\ UNCHANGED <<audiobook_files, music_path, background_music, serialized, loaderRest>>

\* load_background_music(file_path)
load_background_music(file_path, r, large, memory_error) ==
    /\ music_path' = file_path
    /\ background_music' =
          load_file("load_background_music", r, large, memory_error, background_music).segment
    /\ probe' =
          load_file("load_background_music", r, large, memory_error, background_music).result
    /\ UNCHANGED <<audiobook_path, audiobook_files, audiobook, serialized, loaderRest>>

NextLoad ==
    \/ \E f \in AudiobookNames, r \in LoadRuns, large \in BOOLEAN, memory_error \in BOOLEAN :
          load_audiobook(f, r, large, memory_error) /\ UNCHANGED app_settings
    \/ \E runs \in LoadFolders : load_audiobook_folder(runs) /\ UNCHANGED app_settings
    \/ \E f \in MusicNames, r \in LoadRuns, large \in BOOLEAN, memory_error \in BOOLEAN :
          load_background_music(f, r, large, memory_error) /\ UNCHANGED app_settings
    \/ play_mix_command(0, 3)
    \/ preview_mix_command(10, 0)
    \/ write_concat_file

SpecLoad == InitLoad /\ [][NextLoad]_vars

LoadOps == {"load_audiobook", "load_audiobook_folder", "load_background_music"}
SourcesUnchanged ==
    UNCHANGED <<audiobook_path, audiobook_files, music_path, audiobook, background_music>>

\* C33: load_audiobook_folder with an empty sequence of paths returns
\* failure and leaves audiobook_files, audiobook_path and the in-memory
\* audiobook unchanged, so no concat list is ever built from an empty
\* sequence by a later play, preview or render.
C33_EmptyFolderRejected ==
    /\ [][(probe'.op = "load_audiobook_folder" /\ probe'.runs = <<>>)
            => (~probe'.ok /\ SourcesUnchanged)]_vars
    /\ [](playlist.written => playlist.paths # <<>>)

\* an empty folder was refused after a file had been loaded, and a later
\* play_mix built its command from that file
C33_Witness ==
    /\ probe.op = "load_audiobook_folder" /\ probe.runs = <<>> /\ ~probe.ok
    /\ audiobook_path = "book.mp3" /\ audiobook_files = <<>>
    /\ command.op = "play" /\ ~command.multi

\* C34: after any sequence of load_audiobook and load_audiobook_folder
\* calls the processor holds exactly one primary source: audiobook_path and
\* audiobook_files are never both set, so a mix takes the most recently
\* loaded audiobook.
C34_OnePrimarySource == ~(audiobook_path # "None" /\ audiobook_files # <<>>)

\* C35: a load_audiobook, load_audiobook_folder or load_background_music
\* call that returns failure leaves the previously loaded source
\* (audiobook_path, audiobook_files, music_path and the in-memory audio)
\* unchanged.
C35_FailedLoadKeepsSource ==
    [][(probe'.op \in LoadOps /\ ~probe'.ok) => SourcesUnchanged]_vars

\* C36: whenever is_playing is true the anchors are those of the session
\* that is active, a session started by preview_mix included:
\* get_playback_position never reports more than that session's start
\* position plus the time elapsed since it started.  At the moment a call
\* starts a session no time has elapsed.
C36_AnchorsOfActiveSession ==
    [][\A t \in Threads :
          (th[t].pc # "returned" /\ th'[t].pc = "returned" /\ th'[t].ret = "ok"
              /\ th'[t].op \in MixOps /\ is_playing' /\ current_playback_file' = th'[t].sid)
          => get_playback_position' <= th'[t].start]_vars

\* -----------------------------------------------------------------
\* The speed slider during playback, with the Stop button: the GUI
\* handlers and the play_mix threads interleave
\* -----------------------------------------------------------------
InitSpeedStop ==
    /\ InitWith({c \in SourceConfigs : c.files = <<>> /\ ~c.mem /\ c.music # "None"})
    /\ InitSettings /\ serialized = FALSE

NextSpeedStop ==
    \/ toggle_play_pause
    \/ stop_preview
    \/ \E w \in Workers : thread_run(w)
    \/ \E t \in Threads : stop_playback_wait(t)
    \/ \E t \in Threads : stop_playback_unlink(t)
    \/ \E t \in Threads : setup(t)
    \/ \E t \in Threads : spawned(t)
    \/ \E t \in Threads : poll_file(t)
    \/ \E t \in Threads : poll_proc(t)
    \/ \E t \in Threads : handler_read(t)
    \/ \E t \in Threads : thread_return(t)
    \/ \E c \in Calls : engine_write(c)
    \/ \E c \in Calls : engine_exit(c)
    \/ on_speed_change(SpeedMax)
    \/ tk_elapse
    \/ apply_settings_change

SpecSpeedStop == InitSpeedStop /\ [][NextSpeedStop]_vars

\* C39: after the user stops playback no stream session is started by a
\* pending speed-restart timer or by a restart thread that timer already
\* launched: while the Stop handler is the last one the GUI ran, no restart
\* thread starts playback.
C39_StoppedStaysStopped ==
    [][\A w \in Workers :
          (th["gui"].pc = "returned" /\ th["gui"].op = "stop"
              /\ th[w].op = "restart" /\ th[w].pc # "returned")
          => ~(th'[w].pc = "returned" /\ th'[w].ret = "ok" /\ is_playing')]_vars

\* C38: when play_mix or preview_mix starts playback, the player volume is
\* set from the current gain settings before the audio starts: the volume of
\* a new session is the one the current audiobook and music gains give.
C38_VolumeSetAtStart ==
    [][(~is_playing /\ is_playing')
        => mixer_volume' = clamp01(combined_linear(audiobook_volume', music_volume'))]_vars

\* =================================================================
\* The settings file: auto-reload, the debounced save
\* =================================================================
\* save_current_settings(): the file is rewritten from the fields of the
\* application (of its keys, those the properties below look at)
save_current_settings(s) ==
    [s EXCEPT !.file = [auto_reload_files |-> s.auto_reload_var,
                        last_audiobook_path |-> s.audiobook_path,
                        last_music_path |-> s.music_path]]

\* select_audiobook: the dialog gave file_path; the load thread runs
\* load_audiobook and update_ui saves the settings after a success while
\* auto-reload is on
select_audiobook(file_path, r) ==
    /\ th["gui"].pc = "idle"
    /\ load_audiobook(file_path, r, FALSE, FALSE)
    /\ LET s == [app_settings EXCEPT !.audiobook_path = file_path]
       IN  app_settings' = IF probe'.ok /\ s.auto_reload_var
                           THEN save_current_settings(s) ELSE s

\* select_music: the same for the background music
select_music(file_path, r) ==
    /\ th["gui"].pc = "idle"
    /\ load_background_music(file_path, r, FALSE, FALSE)
    /\ LET s == [app_settings EXCEPT !.music_path = file_path]
       IN  app_settings' = IF probe'.ok /\ s.auto_reload_var
                           THEN save_current_settings(s) ELSE s

settingsRest == <<loadVars, volumeVars, speedVars, filterVars, render, probe, buildVars,
                  playbackVars>>

\* on_auto_reload_toggle: the box has changed; set_setting stores its value;
\* clear_file_paths when it is off now, save_current_settings when it is on
on_auto_reload_toggle ==
    /\ th["gui"].pc = "idle"
    /\ LET s == [app_settings EXCEPT !.auto_reload_var = ~@,
                                     !.file.auto_reload_files = ~app_settings.auto_reload_var]
       IN  app_settings' =
             IF ~s.auto_reload_var
             THEN [s EXCEPT !.file.last_audiobook_path = "None",
                            !.file.last_music_path = "None"]
             ELSE save_current_settings(s)
    /\ UNCHANGED settingsRest

\* TkTick ms pass in the Tk event loop without the save becoming due
save_timer_elapse ==
    /\ app_settings.save_settings_timer # Absent /\ app_settings.save_settings_timer > 0
    /\ app_settings' = [app_settings EXCEPT !.save_settings_timer =
                           IF @ > TkTick THEN @ - TkTick ELSE 0]
    /\ UNCHANGED settingsRest

\* the timer is due: Tk calls save_current_settings
save_timer_due ==
    /\ th["gui"].pc = "idle"
    /\ app_settings.save_settings_timer = 0
    /\ app_settings' = [save_current_settings(app_settings)
                           EXCEPT !.save_settings_timer = Absent]
    /\ UNCHANGED settingsRest

NextSettings ==
    \/ \E f \in AudiobookNames, r \in LoadRuns : select_audiobook(f, r)
    \/ \E f \in MusicNames, r \in LoadRuns : select_music(f, r)
    \/ on_speed_change(SpeedMax)
    \/ on_auto_reload_toggle
    \/ save_timer_elapse
    \/ save_timer_due

SpecSettings == InitLoad /\ [][NextSettings]_vars

\* C40: once the user has disabled auto-reload, the persisted settings hold
\* no last audiobook or music file path until auto-reload is enabled again,
\* even when a debounced save was pending when it was disabled.
C40_NoPathsWhileDisabled ==
    ~app_settings.auto_reload_var
      => (app_settings.file.last_audiobook_path = "None"
             /\ app_settings.file.last_music_path = "None")

\* =================================================================
\* The pipes of the streaming engine
\* =================================================================
\* play_mix and preview_mix start ffmpeg with stdout=PIPE and stderr=PIPE
\* and without -loglevel or -nostats: the engine writes its banner and its
\* progress lines to stderr while it encodes (here one line before each
\* chunk of the output file) and nothing to stdout.  The application reads
\* streaming_process.stderr only in its error handlers, after poll() has
\* shown that the process has ended; nothing reads it while the engine runs.
\* lengths of a mix, in chunks: the longest prints more than the pipe holds
StreamLengths == 1..(PipeLines + 1)

streamRest == <<loadVars, volumeVars, speedVars, filterVars, render, probe, command,
                playlist, app_settings, playbackVars>>

\* the Popen call of play_mix (op = "play") or preview_mix (op = "preview")
stream_popen(op, length) ==
    /\ HasSources
    /\ stream.proc # "run"
    /\ stream' = [op |-> op, proc |-> "run", stderr |-> 0, written |-> 0,
                  length |-> length]
    /\ UNCHANGED streamRest

\* write(2) on a pipe nobody reads blocks once the pipe's buffer is full
pipe_full == stream.stderr >= PipeLines

\* the engine prints a line on stderr before its next chunk
ffmpeg_log_line ==
    /\ stream.proc = "run"
    /\ stream.written < stream.length
    /\ stream.stderr = stream.written
    /\ ~pipe_full
    /\ stream' = [stream EXCEPT !.stderr = @ + 1]
    /\ UNCHANGED streamRest

\* the engine appends a chunk to the temporary file
ffmpeg_write_chunk ==
    /\ stream.proc = "run"
    /\ stream.stderr = stream.written + 1
    /\ stream' = [stream EXCEPT !.written = @ + 1]
    /\ UNCHANGED streamRest

\* the whole mix is in the temporary file: the engine exits
ffmpeg_done ==
    /\ stream.proc = "run"
    /\ stream.written = stream.length
    /\ stream' = [stream EXCEPT !.proc = "done"]
    /\ UNCHANGED streamRest

\* stop_playback: terminate() ends the engine
stream_terminate ==
    /\ stream.proc = "run"
    /\ stream' = [stream EXCEPT !.proc = "stopped"]
    /\ UNCHANGED streamRest

ffmpeg_step == ffmpeg_log_line \/ ffmpeg_write_chunk \/ ffmpeg_done

InitStream == InitSeq /\ HasSources

NextStream ==
    \/ \E op \in {"play", "preview"}, length \in StreamLengths : stream_popen(op, length)
    \/ ffmpeg_log_line
    \/ ffmpeg_write_chunk
    \/ ffmpeg_done
    \/ stream_terminate

\* the engine is scheduled whenever it can run
SpecStream == InitStream /\ [][NextStream]_vars /\ WF_vars(ffmpeg_step)

\* C37: while a stream session is active and not stopped, the engine is
\* never blocked forever writing to its stderr or stdout pipe: it
\* eventually finishes writing the mix to the temporary file (or the session
\* is stopped).
C37_EngineFinishesWriting ==
    (stream.proc = "run") ~> (stream.proc \in {"done", "stopped"})

====
